---------------------------- MODULE Spec2Model ----------------------------
(***************************************************************************)
(* A model of the unit-of-measure overlay of fdtdx:                        *)
(*   - functional/patching.py : installation of the unit-aware functions   *)
(*     into the host numeric library's namespaces;                         *)
(*   - core/fraction.py       : the exact rational exponent (Fraction);    *)
(*   - functional/numpy.py    : the unit-aware array functions: those of   *)
(*     one quantity over a wide range of units ("unitful"), and all of     *)
(*     them, dispatch included, over short operand lists ("overlay");      *)
(*   - core/physics/curl.py   : the discrete curl and the interpolation    *)
(*     of fields on small grids ("curl");                                  *)
(*   - units/__init__.py      : the declared unit constants and their    *)
(*     products and quotients ("units");                                   *)
(*   - functional/patching.py again, with two threads installing at the    *)
(*     same time, each statement of patch_fn_to_module a step ("race").    *)
(* The components share no state.  The variable focus says which           *)
(* component a behaviour exercises; the other components' variables keep   *)
(* their idle values.  Each component also has its own specification.      *)
(***************************************************************************)
EXTENDS Integers, Sequences, FiniteSets, TLC

VARIABLES
    focus,      \* "patch" | "fraction" | "unitful" | "overlay" | "curl" | "race"
                \* | "units"
    host,       \* patching: the host namespaces before any installation
    ns,         \* patching: the host namespaces now (module -> attribute -> binding)
    hist,       \* patching: the installation calls made so far;
                \* race: the calls begun and ended, in order
    x,          \* fraction: the Fraction at hand (self)
    call,       \* fraction: the last call, [op, a, b]
    out,        \* fraction: what the last call returned or raised
    q,          \* unitful: the quantity at hand; overlay: the operand list;
                \* curl: the field, the resolution and the periodic axes;
                \* race: each thread's position in patch_fn_to_module
    ucall,      \* unitful: the last call, [op, arg]
    uout        \* unitful: what the last call returned or raised

vars == <<focus, host, ns, hist, x, call, out, q, ucall, uout>>
patchVars == <<host, ns, hist>>
fracVars == <<x, call, out>>
unitVars == <<q, ucall, uout>>

\* Python's None, as the fn_name of a patch list entry
None == "None"

(***************************************************************************)
(*                      functional/patching.py                             *)
(***************************************************************************)

\* The host modules patch_all_functions writes to.
JNP == "jax.numpy"
LAX == "jax.lax"
LINALG == "jax.numpy.linalg"
JAX == "jax"
Modules == {JNP, LAX, LINALG, JAX}

\* _full_patch_list_numpy: (function, name or None), in the order of the source.
FullPatchListNumpy ==
    << <<"multiply", None>>, <<"divide", None>>, <<"divide", "true_divide">>,
       <<"add", None>>, <<"subtract", None>>, <<"lt", "less">>,
       <<"le", "less_equal">>, <<"eq", "equal">>, <<"ne", "not_equal">>,
       <<"ge", "greater_equal">>, <<"gt", "greater">>, <<"matmul", None>>,
       <<"pow", None>>, <<"sqrt", None>>, <<"min", None>>, <<"max", None>>,
       <<"mean", None>>, <<"sum", None>>, <<"roll", None>>, <<"square", None>>,
       <<"abs_impl", "abs">>, <<"abs_impl", "absolute">>, <<"cross", None>>,
       <<"conj", None>>, <<"conj", "conjugate">>, <<"dot", None>>,
       <<"transpose", None>>, <<"pad", None>>, <<"stack", None>>,
       <<"isfinite", None>>, <<"roll", None>>, <<"real", None>>,
       <<"imag", None>>, <<"astype", None>>, <<"squeeze", None>>,
       <<"sin", None>>, <<"cos", None>>, <<"tan", None>>, <<"asarray", None>>,
       <<"array", None>>, <<"exp", None>>, <<"expand_dims", None>>,
       <<"where", None>>, <<"reshape", None>>, <<"arange", None>>,
       <<"meshgrid", None>>, <<"floor", None>>, <<"ceil", None>>,
       <<"prod", None>>, <<"argmax", None>>, <<"argmin", None>> >>

\* _full_patch_list_lax
FullPatchListLax ==
    << <<"lt", None>>, <<"le", None>>, <<"eq", None>>, <<"ne", None>>,
       <<"ge", None>>, <<"gt", None>>, <<"pow", None>>, <<"sqrt", None>> >>

\* _full_patch_list_linalg
FullPatchListLinalg == << <<"norm", None>> >>

\* _full_patch_list_jax
FullPatchListJax == << <<"jit", None>> >>

PatchList(mod) ==
    CASE mod = JNP -> FullPatchListNumpy
      [] mod = LAX -> FullPatchListLax
      [] mod = LINALG -> FullPatchListLinalg
      [] mod = JAX -> FullPatchListJax

\* fn_name as patch_fn_to_module resolves it: f.__name__ when None is given.
ResolveName(f, fn_name) == IF fn_name = None THEN f ELSE fn_name

\* The names an installation writes in a module.
PatchedNames(mod) ==
    {ResolveName(PatchList(mod)[i][1], PatchList(mod)[i][2]) :
        i \in 1..Len(PatchList(mod))}

\* An attribute name is a prefix and a function name: fn_name itself is
\* <<"", fn_name>> and "_orig_" + fn_name is <<"_orig_", fn_name>>.
AttrName(fn_name) == <<"", fn_name>>
OriginalName(fn_name) == <<"_orig_", fn_name>>
Attrs(mod) == {"", "_orig_"} \X PatchedNames(mod)

\* What an attribute is bound to.
Absent == [kind |-> "absent", impl |-> "", qualname |-> <<>>]
HostFn(mod, name) == [kind |-> "host", impl |-> name, qualname |-> <<mod, name>>]
\* copy_func(f) with __qualname__ set to "<mod>.<fn_name>"
FnCopy(f, mod, fn_name) ==
    [kind |-> "unitful", impl |-> f, qualname |-> <<mod, fn_name>>]

HasAttr(nsm, attr) == nsm[attr] # Absent
GetAttr(nsm, attr) == nsm[attr]
SetAttr(nsm, attr, v) == [nsm EXCEPT ![attr] = v]

\* patch_fn_to_module(f, mod, fn_name) on the namespace nsm of module mod.
PatchFnToModule(nsm, f, mod, fn_name) ==
    LET name == ResolveName(f, fn_name)
        fn_copy == FnCopy(f, mod, name)
        original_name == OriginalName(name)
        saved == IF HasAttr(nsm, AttrName(name)) /\ ~HasAttr(nsm, original_name)
                 THEN SetAttr(nsm, original_name, GetAttr(nsm, AttrName(name)))
                 ELSE nsm
    IN  SetAttr(saved, AttrName(name), fn_copy)

\* for fn, orig in <list>: patch_fn_to_module(f=fn, mod=mod, fn_name=orig)
RECURSIVE PatchLoop(_, _, _, _)
PatchLoop(nsm, mod, list, i) ==
    IF i > Len(list) THEN nsm
    ELSE LET patched == PatchFnToModule(nsm, list[i][1], mod, list[i][2])
         IN  \* every name the loop sets is an attribute of the module's universe
             \* (evaluating this also has each step computed before the next)
             IF DOMAIN patched = DOMAIN nsm
             THEN PatchLoop(patched, mod, list, i + 1)
             ELSE patched

\* patch_all_functions(): the four loops.
PatchAllFunctions(n) ==
    [mod \in Modules |-> PatchLoop(n[mod], mod, PatchList(mod), 1)]

\* The largest number of installation calls in a behaviour.
MaxCalls == 3

\* Host functions a host library may lack (older or stripped versions of it).
OptionalHostFns ==
    { <<JNP, "roll">>, <<JNP, "true_divide">>, <<JNP, "astype">>,
      <<LAX, "sqrt">>, <<LINALG, "norm">>, <<JAX, "jit">> }

\* A host namespace that defines every patched name except those in missing;
\* no host defines an "_orig_" name.
HostNamespace(missing) ==
    [mod \in Modules |->
        [attr \in Attrs(mod) |->
            IF attr[1] = "" /\ <<mod, attr[2]>> \notin missing
            THEN HostFn(mod, attr[2]) ELSE Absent]]

\* The single calls of patch_fn_to_module the model makes: (f, mod, fn_name).
SingleCalls ==
    { <<"roll", JNP, None>>, <<"divide", JNP, "true_divide">>,
      <<"sqrt", LAX, None>>, <<"norm", LINALG, None>>, <<"jit", JAX, None>> }

PatchAllCall == [op |-> "patch_all_functions", f |-> None, mod |-> None, fn_name |-> None]
PatchFnCall(c) == [op |-> "patch_fn_to_module", f |-> c[1], mod |-> c[2], fn_name |-> c[3]]

\* The namespaces after call c on namespaces n.
ApplyCall(n, c) ==
    IF c.op = "patch_all_functions" THEN PatchAllFunctions(n)
    ELSE [n EXCEPT ![c.mod] = PatchFnToModule(n[c.mod], c.f, c.mod, c.fn_name)]

IdlePatch == host = <<>> /\ ns = <<>> /\ hist = <<>>

InitPatch ==
    /\ focus = "patch"
    /\ \E missing \in SUBSET OptionalHostFns : host = HostNamespace(missing)
    /\ ns = host
    /\ hist = <<>>

InstallAll ==
    /\ focus = "patch"
    /\ Len(hist) < MaxCalls
    /\ ns' = ApplyCall(ns, PatchAllCall)
    /\ hist' = Append(hist, PatchAllCall)
    /\ UNCHANGED <<host, focus, fracVars, unitVars>>

InstallOne ==
    /\ focus = "patch"
    /\ Len(hist) < MaxCalls
    /\ \E c \in SingleCalls :
        /\ ns' = ApplyCall(ns, PatchFnCall(c))
        /\ hist' = Append(hist, PatchFnCall(c))
    /\ UNCHANGED <<host, focus, fracVars, unitVars>>

NextPatch == InstallAll \/ InstallOne


(***************************************************************************)
(*                         core/fraction.py                                *)
(***************************************************************************)

\* Values.  A float is represented by the rational it stands for, in lowest
\* terms (num/denom, denom > 0); no property below depends on float rounding.
Frac(n, d) == [k |-> "Fraction", num |-> n, denom |-> d]
IntV(n) == [k |-> "int", num |-> n, denom |-> 1]
BoolV(b) == [k |-> "bool", val |-> b]
StrInt(n) == [k |-> "str", form |-> "int", num |-> n, denom |-> 1]
StrFrac(n, d) == [k |-> "str", form |-> "(num/denom)", num |-> n, denom |-> d]
Raise(exc, msg) == [k |-> exc, msg |-> msg]
NotImplemented == [k |-> "NotImplemented"]
NoValue == [k |-> "none"]

Abs(n) == IF n < 0 THEN -n ELSE n
Sign(n) == IF n < 0 THEN -1 ELSE IF n = 0 THEN 0 ELSE 1

\* math.gcd on non-negative integers
RECURSIVE Gcd(_, _)
Gcd(a, b) == IF b = 0 THEN a ELSE Gcd(b, a % b)

\* b ** e for e >= 0
RECURSIVE IPow(_, _)
IPow(b, e) == IF e = 0 THEN 1 ELSE b * IPow(b, e - 1)

FloatV(n, d) ==
    LET g == Gcd(Abs(n), Abs(d))
    IN  [k |-> "float", num |-> Sign(d) * (n \div g), denom |-> Abs(d) \div g]

IsFraction(v) == v.k = "Fraction"
IsInt(v) == v.k = "int"
IsFloat(v) == v.k = "float"
IsRaise(v) == v.k = "ZeroDivisionError"

\* Fraction.value(): self.num / self.denom as a float
Value(self) == FloatV(self.num, self.denom)

\* Fraction.reduced() without the step that makes the denominator positive
ReducedKeepsSign(self) ==
    IF self.num = 0 THEN Frac(0, 1)
    ELSE LET common_divisor == Gcd(Abs(self.num), Abs(self.denom))
         IN  Frac(self.num \div common_divisor, self.denom \div common_divisor)

\* Fraction.reduced()
Reduced(self) ==
    IF self.num = 0 THEN Frac(0, 1)
    ELSE LET common_divisor == Gcd(Abs(self.num), Abs(self.denom))
             reduced_num == self.num \div common_divisor
             reduced_denom == self.denom \div common_divisor
         IN  IF reduced_denom < 0
             THEN Frac(-reduced_num, -reduced_denom)
             ELSE Frac(reduced_num, reduced_denom)

\* Fraction.__add__ returning the sum without .reduced()
FAddUnreduced(self, other) ==
    IF IsFraction(other)
    THEN Frac(self.num * other.denom + other.num * self.denom,
              self.denom * other.denom)
    ELSE IF IsInt(other)
    THEN Frac(self.num + other.num * self.denom, self.denom)
    ELSE IF IsFloat(other)
    THEN FloatV(Value(self).num * other.denom + other.num * Value(self).denom,
                Value(self).denom * other.denom)
    ELSE NotImplemented

\* Fraction.__add__
FAdd(self, other) ==
    IF IsFraction(other)
    THEN Reduced(Frac(self.num * other.denom + other.num * self.denom,
                      self.denom * other.denom))
    ELSE IF IsInt(other)
    THEN Reduced(Frac(self.num * 1 + other.num * self.denom, self.denom * 1))
    ELSE IF IsFloat(other)
    THEN FloatV(Value(self).num * other.denom + other.num * Value(self).denom,
                Value(self).denom * other.denom)
    ELSE NotImplemented

\* Fraction.__radd__
FRadd(self, other) == FAdd(self, other)

\* Fraction.__mul__
FMul(self, other) ==
    IF IsFraction(other)
    THEN Reduced(Frac(self.num * other.num, self.denom * other.denom))
    ELSE IF IsInt(other)
    THEN Reduced(Frac(self.num * other.num, self.denom))
    ELSE IF IsFloat(other)
    THEN FloatV(Value(self).num * other.num, Value(self).denom * other.denom)
    ELSE NotImplemented

\* Fraction.__rmul__
FRmul(self, other) == FMul(self, other)

\* Fraction.__truediv__ without the zero checks
FTruedivUnchecked(self, other) ==
    IF IsFraction(other)
    THEN Reduced(Frac(self.num * other.denom, self.denom * other.num))
    ELSE IF IsInt(other)
    THEN Reduced(Frac(self.num, self.denom * other.num))
    ELSE IF IsFloat(other)
    THEN IF other.num = 0 THEN [k |-> "float", num |-> Sign(Value(self).num), denom |-> 0]
         ELSE FloatV(Value(self).num * other.denom, Value(self).denom * other.num)
    ELSE NotImplemented

\* Fraction.__truediv__
FTruediv(self, other) ==
    IF IsFraction(other)
    THEN IF other.num = 0 THEN Raise("ZeroDivisionError", "Cannot divide by zero")
         ELSE Reduced(Frac(self.num * other.denom, self.denom * other.num))
    ELSE IF IsInt(other)
    THEN IF other.num = 0 THEN Raise("ZeroDivisionError", "Cannot divide by zero")
         ELSE Reduced(Frac(self.num, self.denom * other.num))
    ELSE IF IsFloat(other)
    THEN IF other.num = 0 THEN Raise("ZeroDivisionError", "Cannot divide by zero")
         ELSE FloatV(Value(self).num * other.denom, Value(self).denom * other.num)
    ELSE NotImplemented

\* Fraction.__rtruediv__
FRtruediv(self, other) ==
    IF IsFraction(other) THEN FTruediv(other, self)
    ELSE IF IsInt(other)
    THEN IF self.num = 0 THEN Raise("ZeroDivisionError", "Cannot divide by zero")
         ELSE Reduced(Frac(other.num * self.denom, self.num))
    ELSE IF IsFloat(other)
    THEN IF self.num = 0 THEN Raise("ZeroDivisionError", "Cannot divide by zero")
         ELSE FloatV(other.num * Value(self).denom, other.denom * Value(self).num)
    ELSE NotImplemented

\* Fraction.__sub__
FSub(self, other) ==
    IF IsFraction(other)
    THEN Reduced(Frac(self.num * other.denom - other.num * self.denom,
                      self.denom * other.denom))
    ELSE IF IsInt(other)
    THEN Reduced(Frac(self.num * 1 - other.num * self.denom, self.denom * 1))
    ELSE IF IsFloat(other)
    THEN FloatV(Value(self).num * other.denom - other.num * Value(self).denom,
                Value(self).denom * other.denom)
    ELSE NotImplemented

\* Fraction.__rsub__
FRsub(self, other) ==
    IF IsFraction(other) THEN FSub(other, self)
    ELSE IF IsInt(other) THEN FSub(Frac(other.num, 1), self)
    ELSE IF IsFloat(other)
    THEN FloatV(other.num * Value(self).denom - Value(self).num * other.denom,
                other.denom * Value(self).denom)
    ELSE NotImplemented

\* Fraction.__pow__ without the 0^0 check
FPowZeroToZeroIsOne(self, exponent) ==
    IF exponent = 0 THEN Frac(1, 1)
    ELSE IF exponent > 0
    THEN Reduced(Frac(IPow(self.num, exponent), IPow(self.denom, exponent)))
    ELSE IF self.num = 0
         THEN Raise("ZeroDivisionError", "Cannot raise zero to negative power")
         ELSE Reduced(Frac(IPow(self.denom, -exponent), IPow(self.num, -exponent)))

\* Fraction.__pow__ (exponent an int)
FPow(self, exponent) ==
    IF exponent = 0
    THEN IF self.num = 0 THEN Raise("ZeroDivisionError", "0^0 is undefined")
         ELSE Frac(1, 1)
    ELSE IF exponent > 0
    THEN Reduced(Frac(IPow(self.num, exponent), IPow(self.denom, exponent)))
    ELSE IF self.num = 0
         THEN Raise("ZeroDivisionError", "Cannot raise zero to negative power")
         ELSE Reduced(Frac(IPow(self.denom, -exponent), IPow(self.num, -exponent)))

\* Fraction.__neg__
FNeg(self) == Reduced(Frac(-self.num, self.denom))

\* Fraction.__eq__ (other an int, a float or a Fraction).  In the float branch
\* abs(self.value() - other) < 1e-15: the rationals of the model lie far more
\* than 1e-15 apart unless they are equal.
FEq(self, other) ==
    IF IsFraction(other)
    THEN Reduced(self).num = Reduced(other).num
         /\ Reduced(self).denom = Reduced(other).denom
    ELSE IF IsInt(other)
    THEN IF Reduced(self).denom # 1 THEN FALSE ELSE Reduced(self).num = other.num
    ELSE IF IsFloat(other)
    THEN Value(self).num * other.denom = other.num * Value(self).denom
    ELSE FALSE

\* Fraction.__lt__
FLt(self, other) ==
    IF IsFraction(other) THEN self.num * other.denom < other.num * self.denom
    ELSE IF IsInt(other) THEN self.num < other.num * self.denom
    ELSE Value(self).num * other.denom < other.num * Value(self).denom

\* Fraction.__gt__
FGt(self, other) ==
    IF IsFraction(other) THEN self.num * other.denom > other.num * self.denom
    ELSE IF IsInt(other) THEN self.num > other.num * self.denom
    ELSE Value(self).num * other.denom > other.num * Value(self).denom

\* Fraction.__le__, __ge__, __ne__
FLe(self, other) == FLt(self, other) \/ FEq(self, other)
FGe(self, other) == FGt(self, other) \/ FEq(self, other)
FNe(self, other) == ~FEq(self, other)

\* Fraction.__str__ (and __repr__, which returns str(self))
FStr(self) ==
    IF self.num = 0 THEN StrInt(0)
    ELSE IF self.denom = 1 THEN StrInt(self.num)
    ELSE StrFrac(self.num, self.denom)

FRepr(self) == FStr(self)

CompareOps == {"<", "<=", ">", ">=", "==", "!="}

\* a <op> b as Python evaluates it when a is a Fraction.
CompareLeft(op, a, b) ==
    CASE op = "<" -> FLt(a, b)
      [] op = "<=" -> FLe(a, b)
      [] op = ">" -> FGt(a, b)
      [] op = ">=" -> FGe(a, b)
      [] op = "==" -> FEq(a, b)
      [] op = "!=" -> FNe(a, b)

\* a <op> b when a is an int or a float and b a Fraction: the left operand's
\* method returns NotImplemented and Python calls b's reflected method.
CompareRight(op, a, b) ==
    CASE op = "<" -> FGt(b, a)
      [] op = "<=" -> FGe(b, a)
      [] op = ">" -> FLt(b, a)
      [] op = ">=" -> FLe(b, a)
      [] op = "==" -> FEq(b, a)
      [] op = "!=" -> FNe(b, a)

\* Bounds of the fraction component.
MaxNum == 3     \* constructor arguments and integer operands lie in -MaxNum..MaxNum
MaxPow == 2     \* exponents lie in -MaxPow..MaxPow
MaxMag == 9     \* a result becomes the Fraction at hand only within this magnitude

NonZero == (-MaxNum..MaxNum) \ {0}
\* The constructor's arguments: any numerator, any nonzero denominator.
Constructed == {Frac(p, d) : p \in -MaxNum..MaxNum, d \in NonZero}
IntOperands == {IntV(n) : n \in -MaxNum..MaxNum}
FloatOperands == {FloatV(0, 1), FloatV(1, 2), FloatV(-3, 2)}
Operands == Constructed \cup IntOperands \cup FloatOperands
LeftOperands == IntOperands \cup FloatOperands

InBounds(v) ==
    IsFraction(v) => Abs(v.num) <= MaxMag /\ Abs(v.denom) <= MaxMag

\* The caller makes one call at a time: call = NoValue between calls.  The
\* call record keeps the operands (a the left one, b the right one) and out
\* what the call returned or raised.
Called(op, a, b, r) ==
    /\ focus = "fraction"
    /\ call = NoValue
    /\ InBounds(r)
    /\ call' = [op |-> op, a |-> a, b |-> b]
    /\ out' = r
    /\ UNCHANGED <<x, focus, patchVars, unitVars>>

\* The caller goes on: a returned Fraction is the operand of its next calls.
Continue ==
    /\ focus = "fraction"
    /\ call # NoValue
    /\ x' = IF IsFraction(out) THEN out ELSE x
    /\ call' = NoValue
    /\ out' = NoValue
    /\ UNCHANGED <<focus, patchVars, unitVars>>

IdleFraction == x = NoValue /\ call = NoValue /\ out = NoValue

InitFraction ==
    /\ focus = "fraction"
    /\ x \in Constructed
    /\ call = NoValue
    /\ out = NoValue

Construct == \E f \in Constructed : Called("Fraction", IntV(f.num), IntV(f.denom), f)
DoReduced == Called("reduced", x, NoValue, Reduced(x))
DoAdd == \E b \in Operands : Called("add", x, b, FAdd(x, b))
DoRadd == \E b \in LeftOperands : Called("radd", b, x, FRadd(x, b))
DoSub == \E b \in Operands : Called("sub", x, b, FSub(x, b))
DoRsub == \E b \in LeftOperands : Called("rsub", b, x, FRsub(x, b))
DoMul == \E b \in Operands : Called("mul", x, b, FMul(x, b))
DoRmul == \E b \in LeftOperands : Called("rmul", b, x, FRmul(x, b))
DoTruediv == \E b \in Operands : Called("truediv", x, b, FTruediv(x, b))
DoRtruediv == \E b \in LeftOperands : Called("rtruediv", b, x, FRtruediv(x, b))
DoPow == \E e \in -MaxPow..MaxPow : Called("pow", x, IntV(e), FPow(x, e))
DoNeg == Called("neg", x, NoValue, FNeg(x))
DoCompare ==
    \E op \in CompareOps, b \in Operands :
        Called(op, x, b, BoolV(CompareLeft(op, x, b)))
DoCompareReflected ==
    \E op \in CompareOps, a \in LeftOperands :
        Called(op, a, x, BoolV(CompareRight(op, a, x)))
DoStr == Called("str", x, NoValue, FStr(x))
DoRepr == Called("repr", x, NoValue, FRepr(x))

NextFraction ==
    \/ Construct \/ DoReduced
    \/ DoAdd \/ DoRadd \/ DoSub \/ DoRsub
    \/ DoMul \/ DoRmul \/ DoTruediv \/ DoRtruediv
    \/ DoPow \/ DoNeg
    \/ DoCompare \/ DoCompareReflected
    \/ DoStr \/ DoRepr
    \/ Continue


(***************************************************************************)
(*                        functional/numpy.py                              *)
(***************************************************************************)

\* A numeric payload.  The number [v, r, t] is v^(1/2^r) * 10^(t/2^r): the
\* numbers reachable from an integer mantissa v by square roots and factors
\* of sqrt(10), kept exactly.  traced says whether it is a deferred (traced)
\* value of the host engine.
Number(v, r, t, traced) == [v |-> v, r |-> r, t |-> t, traced |-> traced]

\* is_traced(val)
IsTraced(val) == val.traced

\* jnp._orig_sqrt / np.sqrt: the host's square root, of a traced value traced
OrigSqrt(val) == [val EXCEPT !.r = @ + 1]

\* val * math.sqrt(10), for a val that is a square root (r >= 1):
\* 10^(1/2) = 10^(2^(r-1) / 2^r)
MulSqrt10(val) == [val EXCEPT !.t = @ + IPow(2, val.r - 1)]

\* Unit(scale, dim) and Unitful(val, unit, static_arr)
Unit(scale, dim) == [scale |-> scale, dim |-> dim]
Unitful(val, unit, static_arr) ==
    [k |-> "Unitful", val |-> val, unit |-> unit, static_arr |-> static_arr]

\* static_arr=None
NoStaticArr == [k |-> "None"]

\* get_static_operand(x) for a quantity whose payload is traced: its shadow,
\* or None when it carries none; for a bare array, the array when it is
\* concrete.
GetStaticOperand(xq) ==
    IF xq.k = "Unitful" THEN xq.static_arr
    ELSE IF IsTraced(xq.val) THEN NoStaticArr
    ELSE xq.val

\* math.floor(num / den) for den > 0: the float quotient of two small integers
\* is exact up to rounding that does not cross an integer
MathFloor(num, den) ==
    CHOOSE n \in -(Abs(num) + 1)..(Abs(num) + 1) :
        n * den <= num /\ num < (n + 1) * den

\* the new exponent with every integer exponent floor-halved
SqrtExponentFloors(v) ==
    IF IsInt(v) THEN IntV(v.num \div 2)
    ELSE IF IsFraction(v) THEN FTruediv(v, IntV(2))
    ELSE Raise("Exception", "Invalid dimension exponent")

\* sqrt, lines 35-43: the new exponent of one base dimension
SqrtExponent(v) ==
    IF IsInt(v)
    THEN IF v.num % 2 = 0 THEN IntV(v.num \div 2) ELSE Frac(v.num, 2)
    ELSE IF IsFraction(v) THEN FTruediv(v, IntV(2))
    ELSE Raise("Exception", "Invalid dimension exponent")

\* the new scale with int(scale / 2), which rounds toward zero
SqrtScaleTruncates(scale) ==
    IF scale % 2 = 0 THEN scale \div 2
    ELSE IF scale < 0 THEN -((-scale) \div 2) ELSE scale \div 2

\* sqrt, lines 44-49: the new scale (math.floor(scale / 2) when it is odd)
SqrtScale(scale) ==
    IF scale % 2 = 0 THEN scale \div 2 ELSE MathFloor(scale, 2)

\* the new payload with the parity test made on the halved scale
SqrtValTestsHalvedScale(val, scale) ==
    IF (scale \div 2) % 2 = 0 THEN OrigSqrt(val) ELSE MulSqrt10(OrigSqrt(val))

\* sqrt, lines 44-49: the new payload
SqrtVal(val, scale) ==
    IF scale % 2 = 0 THEN OrigSqrt(val) ELSE MulSqrt10(OrigSqrt(val))

\* sqrt, lines 50-57: the new shadow
SqrtStaticArr(xq, new_val) ==
    IF IsTraced(new_val)
    THEN LET x_arr == GetStaticOperand(xq)
         IN  IF x_arr # NoStaticArr
             THEN IF xq.unit.scale % 2 # 0
                  THEN MulSqrt10(OrigSqrt(x_arr)) ELSE OrigSqrt(x_arr)
             ELSE NoStaticArr
    ELSE NoStaticArr

\* sqrt(x: Unitful)
USqrt(xq) ==
    LET new_dim == [d \in DOMAIN xq.unit.dim |-> SqrtExponent(xq.unit.dim[d])]
        new_val == SqrtVal(xq.val, xq.unit.scale)
        new_scale == SqrtScale(xq.unit.scale)
    IN  IF \E d \in DOMAIN new_dim : new_dim[d].k = "Exception"
        THEN Raise("Exception", "Invalid dimension exponent")
        ELSE Unitful(new_val, Unit(new_scale, new_dim), SqrtStaticArr(xq, new_val))

\* The number val with its root index raised to R >= val.r (the same value).
Lift(val, R) ==
    [val EXCEPT !.v = IPow(@, IPow(2, R - val.r)),
                !.t = @ * IPow(2, R - val.r),
                !.r = R]

\* The one representation of the value of a number: every factor ten of the
\* mantissa moved to the power of ten, then the smallest root index.
RECURSIVE Canon(_)
Canon(val) ==
    IF val.v % 10 = 0
    THEN Canon([val EXCEPT !.v = @ \div 10, !.t = @ + 1])
    ELSE IF val.r > 0 /\ val.t % 2 = 0 /\ (\E w \in 1..val.v : w * w = val.v)
    THEN Canon([val EXCEPT !.v = CHOOSE w \in 1..val.v : w * w = val.v,
                           !.t = @ \div 2,
                           !.r = @ - 1])
    ELSE val

\* a * b of two payloads: the host's product, traced when an operand is
OrigMul(a, b) ==
    LET R == IF a.r > b.r THEN a.r ELSE b.r
    IN  Canon(Number(Lift(a, R).v * Lift(b, R).v, R,
                     Lift(a, R).t + Lift(b, R).t, a.traced \/ b.traced))

\* a + b of two dimension exponents, each an int or a Fraction
ExponentAdd(a, b) ==
    IF IsInt(a) /\ IsInt(b) THEN IntV(a.num + b.num)
    ELSE IF IsFraction(a) THEN FAdd(a, b)
    ELSE FRadd(b, a)

\* v == 0 for a dimension exponent
ExponentIsZero(v) == IF IsInt(v) THEN v.num = 0 ELSE FEq(v, IntV(0))

\* dim_after_multiplication(dim1, dim2): the exponents of each base dimension
\* added, every zero exponent dropped
DimAfterMultiplication(dim1, dim2) ==
    LET sum(d) == IF d \notin DOMAIN dim2 THEN dim1[d]
                  ELSE IF d \notin DOMAIN dim1 THEN dim2[d]
                  ELSE ExponentAdd(dim1[d], dim2[d])
        kept == {d \in DOMAIN dim1 \cup DOMAIN dim2 : ~ExponentIsZero(sum(d))}
    IN  [d \in kept |-> sum(d)]

\* Unitful.__mul__(self, other: Unitful): payloads multiply, scales add,
\* dimensions combine; the shadow is the product of the operands' shadows
UMultiply(self, other) ==
    LET new_val == OrigMul(self.val, other.val)
        a_arr == GetStaticOperand(self)
        b_arr == GetStaticOperand(other)
    IN  Unitful(new_val,
                Unit(self.unit.scale + other.unit.scale,
                     DimAfterMultiplication(self.unit.dim, other.unit.dim)),
                IF IsTraced(new_val) /\ a_arr # NoStaticArr /\ b_arr # NoStaticArr
                THEN OrigMul(a_arr, b_arr) ELSE NoStaticArr)

\* square(x: Unitful), lines 114-118
USquare(xq) == UMultiply(xq, xq)

\* (10**k) * val
ScaleBy(val, k) == [val EXCEPT !.t = @ + k * IPow(2, val.r)]

\* The host's fn (jnp._orig_fn, np.fn) at val: fn of the value of val, traced
\* when val is
Applied(fn, val) == [fn |-> fn, of |-> Canon(val), traced |-> val.traced]

\* the shadow of the functions of one operand: np.fn(arg) when the result is
\* traced and x carries a shadow, else None
StaticOf(fn, xq, new_val, k) ==
    IF IsTraced(new_val) /\ GetStaticOperand(xq) # NoStaticArr
    THEN Applied(fn, ScaleBy(GetStaticOperand(xq), k))
    ELSE NoStaticArr

\* x.materialise(): the payload with the scale folded into it
Materialise(xq) == ScaleBy(xq.val, xq.unit.scale)

\* sin(x: Unitful), lines 589-598
USin(xq) ==
    LET new_val == Applied("sin", xq.val)
    IN  Unitful(new_val, xq.unit, StaticOf("sin", xq, new_val, 0))

\* cos(x: Unitful), lines 625-634
UCos(xq) ==
    LET new_val == Applied("cos", xq.val)
    IN  Unitful(new_val, xq.unit, StaticOf("cos", xq, new_val, 0))

\* tan(x: Unitful), lines 661-670
UTan(xq) ==
    LET new_val == Applied("tan", xq.val)
    IN  Unitful(new_val, xq.unit, StaticOf("tan", xq, new_val, 0))

\* exp without its assertion
UExpUnchecked(xq) ==
    LET new_val == Applied("exp", ScaleBy(xq.val, xq.unit.scale))
    IN  Unitful(new_val, Unit(0, <<>>),
                StaticOf("exp", xq, new_val, xq.unit.scale))

\* exp(x: Unitful), lines 733-746
UExp(xq) ==
    IF DOMAIN xq.unit.dim # {}
    THEN Raise("AssertionError", "Cannot use unitful with dim as exponent")
    ELSE LET new_val == Applied("exp", ScaleBy(xq.val, xq.unit.scale))
         IN  Unitful(new_val, Unit(0, <<>>),
                     StaticOf("exp", xq, new_val, xq.unit.scale))

\* floor with the unit of exp: scale 0
UFloorAtScaleZero(xq) ==
    IF DOMAIN xq.unit.dim # {}
    THEN Raise("AssertionError", "Cannot use floor on a value with non-empty unit")
    ELSE LET new_val == Applied("floor", Materialise(xq))
         IN  Unitful(new_val, Unit(0, <<>>),
                     StaticOf("floor", xq, new_val, xq.unit.scale))

\* floor(x: Unitful), lines 937-951
UFloor(xq) ==
    IF DOMAIN xq.unit.dim # {}
    THEN Raise("AssertionError", "Cannot use floor on a value with non-empty unit")
    ELSE LET new_val == Applied("floor", Materialise(xq))
         IN  Unitful(new_val, xq.unit,
                     StaticOf("floor", xq, new_val, xq.unit.scale))

\* ceil(x: Unitful), lines 972-986
UCeil(xq) ==
    IF DOMAIN xq.unit.dim # {}
    THEN Raise("AssertionError", "Cannot use ceil on a value with non-empty unit")
    ELSE LET new_val == Applied("ceil", Materialise(xq))
         IN  Unitful(new_val, xq.unit,
                     StaticOf("ceil", xq, new_val, xq.unit.scale))

\* Bounds of the unitful component.
MaxExp == 2       \* integer dimension exponents lie in -MaxExp..MaxExp
MaxScale == 3     \* scales lie in -MaxScale..MaxScale
MaxMant == 2      \* mantissas lie in 1..MaxMant
MaxRoot == 2      \* at most MaxRoot square roots are taken in a row

\* Base dimensions the quantities of the model use (members of SI).
BaseDims == {"m", "s"}
\* No base dimension is kept with a zero exponent: the arithmetic drops them.
Exponents ==
    {IntV(n) : n \in (-MaxExp..MaxExp) \ {0}}
        \cup {Frac(1, 2), Frac(-3, 2), Frac(2, 1)}
DimMaps == UNION {[ds -> Exponents] : ds \in SUBSET BaseDims}

\* The quantities that enter: an eager payload (no shadow is consulted), or a
\* traced payload with or without a shadow of the same value.
Quantities ==
    {Unitful(Number(v, 0, 0, tr), Unit(s, dm),
             IF tr /\ sh THEN Number(v, 0, 0, FALSE) ELSE NoStaticArr) :
        v \in 1..MaxMant, tr \in BOOLEAN, sh \in BOOLEAN,
        s \in -MaxScale..MaxScale, dm \in DimMaps}

UCalled(op, arg, r) ==
    /\ focus = "unitful"
    /\ ucall' = [op |-> op, arg |-> arg]
    /\ uout' = r
    /\ q' = IF r.k = "Unitful" THEN r ELSE q
    /\ UNCHANGED <<focus, patchVars, fracVars>>

IdleUnitful == q = NoValue /\ ucall = NoValue /\ uout = NoValue

InitUnitful ==
    /\ focus = "unitful"
    /\ q \in Quantities
    /\ ucall = [op |-> "Unitful", arg |-> NoValue]
    /\ uout = q

\* A call that leaves the quantity at hand as it is (the caller keeps x).
UReturned(op, arg, r) ==
    /\ focus = "unitful"
    /\ ucall' = [op |-> op, arg |-> arg]
    /\ uout' = r
    /\ UNCHANGED <<q, focus, patchVars, fracVars>>

DoSqrt == focus = "unitful" /\ q.val.r < MaxRoot /\ UCalled("sqrt", q, USqrt(q))
DoSquare == focus = "unitful" /\ UReturned("square", q, USquare(q))
\* the expression sqrt(square(x))
DoSqrtOfSquare ==
    focus = "unitful" /\ UReturned("sqrt(square)", q, USqrt(USquare(q)))
DoSin == focus = "unitful" /\ UReturned("sin", q, USin(q))
DoCos == focus = "unitful" /\ UReturned("cos", q, UCos(q))
DoTan == focus = "unitful" /\ UReturned("tan", q, UTan(q))
DoExp == focus = "unitful" /\ UReturned("exp", q, UExp(q))
DoFloor == focus = "unitful" /\ UReturned("floor", q, UFloor(q))
DoCeil == focus = "unitful" /\ UReturned("ceil", q, UCeil(q))

NextUnitful ==
    \/ DoSqrt \/ DoSquare \/ DoSqrtOfSquare
    \/ DoSin \/ DoCos \/ DoTan \/ DoExp \/ DoFloor \/ DoCeil

(***************************************************************************)
(*        functional/numpy.py: several operands, and the dispatch          *)
(***************************************************************************)

\* A bare operand: a jax.Array, np.ndarray, float (or int), complex, or a str
\* (no numeric kind), with its value.
Raw(kind, val) == [k |-> kind, val |-> val]

\* A Python list or tuple of operands.
List(items) == [k |-> "list", items |-> items]

\* jaxtyping.ArrayLike
ArrayLikeKinds == {"jax.Array", "np.ndarray", "float", "complex"}
IsArrayLike(a) == a.k \in ArrayLikeKinds

\* EMPTY_UNIT
EMPTY_UNIT == Unit(0, <<>>)

\* Unitful(val=x, unit=EMPTY_UNIT): a bare operand wrapped as dimensionless
Wrap(a) == Unitful(a.val, EMPTY_UNIT, NoStaticArr)

\* The host's fn at several payloads (jnp._orig_fn(a, b, ...)).
AppliedN(fn, vals) ==
    [fn |-> fn,
     of |-> [i \in DOMAIN vals |-> Canon(vals[i])],
     traced |-> \E i \in DOMAIN vals : vals[i].traced]

\* a == b of two dimension exponents: int.__eq__, else Fraction.__eq__ (the
\* reflected one when the left side is an int)
ExponentEq(a, b) ==
    IF IsInt(a) /\ IsInt(b) THEN a.num = b.num
    ELSE IF IsFraction(a) THEN FEq(a, b)
    ELSE FEq(b, a)

\* dim1 == dim2 of two dicts
DimEq(dim1, dim2) ==
    /\ DOMAIN dim1 = DOMAIN dim2
    /\ \A d \in DOMAIN dim1 : ExponentEq(dim1[d], dim2[d])

\* The target scales handle_n_scales may choose: any scale between the
\* smallest and the largest operand scale.
TargetScales(scales) ==
    LET given == {scales[i] : i \in DOMAIN scales}
        lo == CHOOSE a \in given : \A b \in given : a <= b
        hi == CHOOSE a \in given : \A b \in given : b <= a
    IN  lo..hi

\* handle_n_scales(scales) when it chooses target: the target scale and, for
\* each operand, the exponent e of its factor 10^e = 10^(s_i - target)
HandleNScales(scales, target) ==
    <<target, [i \in DOMAIN scales |-> scales[i] - target]>>

\* align_scales(x, y) when the common scale is target
AlignScales(xq, yq, target) ==
    <<[xq EXCEPT !.val = ScaleBy(@, xq.unit.scale - target), !.unit.scale = target],
      [yq EXCEPT !.val = ScaleBy(@, yq.unit.scale - target), !.unit.scale = target]>>

\* the shadow of a function of two operands
StaticOf2(fn, a, b, new_val) ==
    IF /\ IsTraced(new_val)
       /\ GetStaticOperand(a) # NoStaticArr
       /\ GetStaticOperand(b) # NoStaticArr
    THEN AppliedN(fn, <<GetStaticOperand(a), GetStaticOperand(b)>>)
    ELSE NoStaticArr

\* roll, conj, transpose, pad, real, imag, expand_dims (x: Unitful): the
\* host's function on the payload, the unit of x
UKeepUnit(fn, xq) ==
    LET new_val == Applied(fn, xq.val)
    IN  Unitful(new_val, xq.unit, StaticOf(fn, xq, new_val, 0))

\* isfinite(x: Unitful), lines 469-476: a bare array
UIsfinite(xq) == Raw("jax.Array", Applied("isfinite", xq.val))

\* cross with the scale of a alone
UCrossScaleOfFirst(a, b) ==
    LET new_val == AppliedN("cross", <<a.val, b.val>>)
    IN  Unitful(new_val,
                Unit(a.unit.scale, DimAfterMultiplication(a.unit.dim, b.unit.dim)),
                StaticOf2("cross", a, b, new_val))

\* cross(a: Unitful, b: Unitful), lines 145-162
UCross(a, b) ==
    LET new_val == AppliedN("cross", <<a.val, b.val>>)
        new_scale == a.unit.scale + b.unit.scale
        unit_dict == DimAfterMultiplication(a.unit.dim, b.unit.dim)
    IN  Unitful(new_val, Unit(new_scale, unit_dict),
                StaticOf2("cross", a, b, new_val))

\* the overload without annotations handing the call to the host's cross
CrossCatchAllDelegates(a, b) == Raw("jax.Array", AppliedN("cross", <<a.val, b.val>>))

\* cross(a, b), lines 175-182: the overload without annotations
CrossCatchAll(a, b) == Raise("NotImplementedError", "Currently not implemented for")

\* dot of two quantities computed from the shadows when both are there
UDotFromShadows(a, b) ==
    LET from_shadows == a.static_arr # NoStaticArr /\ b.static_arr # NoStaticArr
        new_val == IF from_shadows
                   THEN AppliedN("dot", <<a.static_arr, b.static_arr>>)
                   ELSE AppliedN("dot", <<a.val, b.val>>)
    IN  Unitful(new_val,
                Unit(a.unit.scale + b.unit.scale,
                     DimAfterMultiplication(a.unit.dim, b.unit.dim)),
                StaticOf2("dot", a, b, new_val))

\* dot(a: Unitful, b: Unitful), lines 248-265
UDot(a, b) ==
    LET new_val == AppliedN("dot", <<a.val, b.val>>)
        unit_dict == DimAfterMultiplication(a.unit.dim, b.unit.dim)
        new_scale == a.unit.scale + b.unit.scale
    IN  Unitful(new_val, Unit(new_scale, unit_dict),
                StaticOf2("dot", a, b, new_val))

\* dot(a: Unitful, b: jax.Array | np.ndarray), lines 268-283
UDotArray(a, b) ==
    LET new_val == AppliedN("dot", <<a.val, b.val>>)
    IN  Unitful(new_val, a.unit, StaticOf2("dot", a, b, new_val))

\* dot(a: jax.Array | np.ndarray, b: Unitful), lines 286-301
ArrayDotU(a, b) ==
    LET new_val == AppliedN("dot", <<a.val, b.val>>)
    IN  Unitful(new_val, b.unit, StaticOf2("dot", a, b, new_val))

\* the check of stack made on the whole unit, scale included
StackDimsDifferByUnit(items) ==
    \E i \in DOMAIN items : items[i].unit # items[1].unit

\* stack, lines 405-406: some a.unit.dim != arrays[0].unit.dim
StackDimsDiffer(items) ==
    \E i \in DOMAIN items : ~DimEq(items[i].unit.dim, items[1].unit.dim)

\* the sequence branch of stack with the unit of the first operand
UStackSequenceUnitOfFirst(items, target) ==
    LET factors == HandleNScales([i \in DOMAIN items |-> items[i].unit.scale], target)[2]
        new_val == AppliedN("stack", [i \in DOMAIN items |-> ScaleBy(items[i].val, factors[i])])
    IN  IF StackDimsDiffer(items)
        THEN Raise("Exception", "jnp.stack requires all Unitful to have the same dimension")
        ELSE Unitful(new_val, items[1].unit, NoStaticArr)

\* stack, lines 405-420: arrays is a Sequence
UStackSequence(items, target) ==
    LET hs == HandleNScales([i \in DOMAIN items |-> items[i].unit.scale], target)
        new_scale == hs[1]
        factors == hs[2]
        scaled == [i \in DOMAIN items |-> ScaleBy(items[i].val, factors[i])]
        new_val == AppliedN("stack", scaled)
        new_unit == Unit(new_scale, items[1].unit.dim)
        arrs == [i \in DOMAIN items |-> GetStaticOperand(items[i])]
    IN  IF StackDimsDiffer(items)
        THEN Raise("Exception", "jnp.stack requires all Unitful to have the same dimension")
        ELSE Unitful(new_val, new_unit,
                     IF IsTraced(new_val) /\ \A i \in DOMAIN arrs : arrs[i] # NoStaticArr
                     THEN AppliedN("stack", [i \in DOMAIN arrs |-> ScaleBy(arrs[i], factors[i])])
                     ELSE NoStaticArr)

\* stack(arrays: Unitful | Sequence[Unitful]), lines 398-430, when
\* handle_n_scales chooses target
UStack(arrays, target) ==
    IF arrays.k = "list"
    THEN UStackSequence(arrays.items, target)
    ELSE LET new_val == Applied("stack", arrays.val)
         IN  Unitful(new_val, arrays.unit, StaticOf("stack", arrays, new_val, 0))

\* stack(x: ArrayLike | Sequence[ArrayLike]), lines 433-455; physical says
\* whether output_unitful_for_array holds of every operand and of the result
StackArrayLike(xa, physical) ==
    IF ~physical
    THEN IF xa.k = "list"
         THEN Raw("jax.Array", AppliedN("stack", [i \in DOMAIN xa.items |-> xa.items[i].val]))
         ELSE Raw("jax.Array", Applied("stack", xa.val))
    ELSE IF xa.k = "list"
         THEN UStack(List([i \in DOMAIN xa.items |-> Wrap(xa.items[i])]), 0)
         ELSE UStack(Wrap(xa), 0)

\* meshgrid, lines 893-896: some xi.unit.dim != args[0].unit.dim
MeshgridDimsDiffer(items) ==
    \E i \in DOMAIN items : ~DimEq(items[i].unit.dim, items[1].unit.dim)

\* the i-th grid of jnp._orig_meshgrid(*vals) / np.meshgrid(*vals)
MeshgridOut(vals, i) ==
    [fn |-> "meshgrid", out |-> i,
     of |-> [j \in DOMAIN vals |-> Canon(vals[j])],
     traced |-> \E j \in DOMAIN vals : vals[j].traced]

\* can_perform_scatic_ops(o)
CanPerformStaticOps(o) == o # NoStaticArr

\* meshgrid(*args: Unitful), lines 888-915, when handle_n_scales chooses target
UMeshgrid(args, target) ==
    LET items == args.items
        dim == items[1].unit.dim
        hs == HandleNScales([i \in DOMAIN items |-> items[i].unit.scale], target)
        new_scale == hs[1]
        factors == hs[2]
        aligned_arrs == [i \in DOMAIN items |-> ScaleBy(items[i].val, factors[i])]
        new_vals == [i \in DOMAIN items |-> MeshgridOut(aligned_arrs, i)]
        static_ops == [i \in DOMAIN items |-> GetStaticOperand(items[i])]
        static_all == \A i \in DOMAIN items : CanPerformStaticOps(static_ops[i])
        static_arrs == [i \in DOMAIN items |->
            MeshgridOut([j \in DOMAIN items |-> ScaleBy(static_ops[j], factors[j])], i)]
    IN  IF MeshgridDimsDiffer(items)
        THEN Raise("Exception", "Inconsistent units in meshgrid")
        ELSE List([i \in DOMAIN items |->
                Unitful(new_vals[i], Unit(new_scale, dim),
                        IF static_all THEN static_arrs[i] ELSE NoStaticArr)])

\* where(condition: Unitful, x: Unitful, y: Unitful), lines 804-825, when
\* align_scales chooses target
UWhere(condition, xq, yq, target) ==
    IF ~DimEq(xq.unit.dim, yq.unit.dim)
    THEN Raise("AssertionError", "need the same units for jnp.where")
    ELSE IF ~(DOMAIN condition.unit.dim = {} /\ condition.unit.scale = 0)
    THEN Raise("AssertionError", "Invalid condition input")
    ELSE LET al == AlignScales(xq, yq, target)
             new_val == AppliedN("where", <<condition.val, al[1].val, al[2].val>>)
             x_arr == GetStaticOperand(xq)
             y_arr == GetStaticOperand(yq)
             c_arr == GetStaticOperand(condition)
         IN  Unitful(new_val, xq.unit,
                     IF /\ IsTraced(new_val)
                        /\ x_arr # NoStaticArr /\ y_arr # NoStaticArr /\ c_arr # NoStaticArr
                     THEN AppliedN("where", <<c_arr, x_arr, y_arr>>)
                     ELSE NoStaticArr)

\* The dispatch.  A call goes to the overload whose annotations its operand
\* kinds match; a call that matches none ends in the error miss: the
\* NotImplementedError of the function under @dispatch, or the dispatcher's
\* own lookup error when that function is not registered as an implementation.
FallbackErrors == {"NotImplementedError", "NotFoundLookupError"}
NoOverload(miss) == Raise(miss, "no implementation for the operand kinds")

\* the host's (or math's) function on a bare operand, returned as kind
HostCall(kind, fn, xa) == Raw(kind, Applied(fn, xa.val))

\* sqrt, lines 29-74
sqrt(xa, miss) ==
    CASE xa.k = "Unitful" -> USqrt(xa)
      [] xa.k = "float" -> HostCall("float", "sqrt", xa)
      [] xa.k = "jax.Array" -> HostCall("jax.Array", "sqrt", xa)
      [] OTHER -> NoOverload(miss)

\* roll, lines 78-110
roll(xa, miss) ==
    CASE xa.k = "Unitful" -> UKeepUnit("roll", xa)
      [] xa.k = "jax.Array" -> HostCall("jax.Array", "roll", xa)
      [] OTHER -> NoOverload(miss)

\* square, lines 114-141
square(xa, miss) ==
    CASE xa.k = "Unitful" -> USquare(xa)
      [] xa.k \in {"float", "complex", "jax.Array"} -> Raw(xa.k, OrigMul(xa.val, xa.val))
      [] OTHER -> NoOverload(miss)

\* cross, lines 145-193
cross(a, b) ==
    CASE a.k = "Unitful" /\ b.k = "Unitful" -> UCross(a, b)
      [] a.k = "jax.Array" /\ b.k = "jax.Array" ->
            Raw("jax.Array", AppliedN("cross", <<a.val, b.val>>))
      [] OTHER -> CrossCatchAll(a, b)

\* conj, lines 197-244
conj(xa, miss) ==
    CASE xa.k = "Unitful" -> UKeepUnit("conj", xa)
      [] xa.k = "float" -> xa
      [] xa.k = "complex" -> HostCall("complex", "conjugate", xa)
      [] xa.k = "jax.Array" -> HostCall("jax.Array", "conj", xa)
      [] OTHER -> NoOverload(miss)

\* dot, lines 248-322
dot(a, b, miss) ==
    CASE a.k = "Unitful" /\ b.k = "Unitful" -> UDot(a, b)
      [] a.k = "Unitful" /\ b.k \in {"jax.Array", "np.ndarray"} -> UDotArray(a, b)
      [] a.k \in {"jax.Array", "np.ndarray"} /\ b.k = "Unitful" -> ArrayDotU(a, b)
      [] a.k = "jax.Array" /\ b.k = "jax.Array" ->
            Raw("jax.Array", AppliedN("dot", <<a.val, b.val>>))
      [] OTHER -> NoOverload(miss)

\* transpose, lines 326-358
transpose(xa, miss) ==
    CASE xa.k = "Unitful" -> UKeepUnit("transpose", xa)
      [] xa.k = "jax.Array" -> HostCall("jax.Array", "transpose", xa)
      [] OTHER -> NoOverload(miss)

\* pad, lines 362-394
pad(xa, miss) ==
    CASE xa.k = "Unitful" -> UKeepUnit("pad", xa)
      [] xa.k = "jax.Array" -> HostCall("jax.Array", "pad", xa)
      [] OTHER -> NoOverload(miss)

\* stack, lines 398-465
stack(arrays, target, physical, miss) ==
    LET all(P(_)) == IF arrays.k = "list"
                     THEN \A i \in DOMAIN arrays.items : P(arrays.items[i])
                     ELSE P(arrays)
        IsUnitful(a) == a.k = "Unitful"
    IN  CASE all(IsUnitful) -> UStack(arrays, target)
          [] all(IsArrayLike) -> StackArrayLike(arrays, physical)
          [] OTHER -> NoOverload(miss)

\* isfinite, lines 469-495
isfinite(xa, miss) ==
    CASE xa.k = "Unitful" -> UIsfinite(xa)
      [] xa.k = "jax.Array" -> HostCall("jax.Array", "isfinite", xa)
      [] OTHER -> NoOverload(miss)

\* real, lines 499-542
real(val, miss) ==
    CASE val.k = "Unitful" -> UKeepUnit("real", val)
      [] val.k = "float" -> val
      [] val.k = "complex" -> HostCall("float", "real", val)
      [] val.k = "jax.Array" -> HostCall("jax.Array", "real", val)
      [] OTHER -> NoOverload(miss)

\* imag, lines 546-585
imag(val, miss) ==
    CASE val.k = "Unitful" -> UKeepUnit("imag", val)
      [] val.k = "float" -> val
      [] val.k = "complex" -> HostCall("float", "imag", val)
      [] val.k = "jax.Array" -> HostCall("jax.Array", "imag", val)
      [] OTHER -> NoOverload(miss)

\* sin, lines 589-621
sin(xa, miss) ==
    CASE xa.k = "Unitful" -> USin(xa)
      [] xa.k = "float" -> HostCall("float", "sin", xa)
      [] xa.k = "np.ndarray" -> HostCall("np.ndarray", "sin", xa)
      [] xa.k = "jax.Array" -> HostCall("jax.Array", "sin", xa)
      [] OTHER -> NoOverload(miss)

\* cos, lines 625-657
cos(xa, miss) ==
    CASE xa.k = "Unitful" -> UCos(xa)
      [] xa.k = "jax.Array" -> HostCall("jax.Array", "cos", xa)
      [] xa.k = "float" -> HostCall("float", "cos", xa)
      [] xa.k = "np.ndarray" -> HostCall("np.ndarray", "cos", xa)
      [] OTHER -> NoOverload(miss)

\* tan, lines 661-693
tan(xa, miss) ==
    CASE xa.k = "Unitful" -> UTan(xa)
      [] xa.k = "jax.Array" -> HostCall("jax.Array", "tan", xa)
      [] xa.k = "float" -> HostCall("float", "tan", xa)
      [] xa.k = "np.ndarray" -> HostCall("np.ndarray", "tan", xa)
      [] OTHER -> NoOverload(miss)

\* exp, lines 733-766
exp(xa, miss) ==
    CASE xa.k = "Unitful" -> UExp(xa)
      [] xa.k = "jax.Array" -> HostCall("jax.Array", "exp", xa)
      [] xa.k = "float" -> HostCall("float", "exp", xa)
      [] OTHER -> NoOverload(miss)

\* expand_dims, lines 770-800
expand_dims(xa, miss) ==
    CASE xa.k = "Unitful" -> UKeepUnit("expand_dims", xa)
      [] xa.k = "jax.Array" -> HostCall("jax.Array", "expand_dims", xa)
      [] OTHER -> NoOverload(miss)

\* where, lines 804-868
where(condition, xa, ya, target, miss) ==
    LET c == IF condition.k = "Unitful" THEN condition ELSE Wrap(condition)
    IN  CASE condition.k = "Unitful" /\ xa.k = "Unitful" /\ ya.k = "Unitful" ->
                UWhere(condition, xa, ya, target)
          [] condition.k \in {"jax.Array", "Unitful"} /\ IsArrayLike(xa) /\ ya.k = "Unitful" ->
                UWhere(c, Wrap(xa), ya, target)
          [] condition.k \in {"jax.Array", "Unitful"} /\ xa.k = "Unitful" /\ IsArrayLike(ya) ->
                UWhere(c, xa, Wrap(ya), target)
          [] condition.k = "jax.Array" /\ IsArrayLike(xa) /\ IsArrayLike(ya) ->
                Raw("jax.Array", AppliedN("where", <<condition.val, xa.val, ya.val>>))
          [] OTHER -> NoOverload(miss)

\* meshgrid, lines 888-933
meshgrid(args, target, miss) ==
    CASE \A i \in DOMAIN args.items : args.items[i].k = "Unitful" -> UMeshgrid(args, target)
      [] \A i \in DOMAIN args.items : IsArrayLike(args.items[i]) ->
            Raw("list[jax.Array]", AppliedN("meshgrid", [i \in DOMAIN args.items |-> args.items[i].val]))
      [] OTHER -> NoOverload(miss)

\* floor, lines 937-968
floor(xa, miss) ==
    CASE xa.k = "Unitful" -> UFloor(xa)
      [] xa.k = "jax.Array" -> HostCall("jax.Array", "floor", xa)
      [] OTHER -> NoOverload(miss)

\* ceil, lines 972-1003
ceil(xa, miss) ==
    CASE xa.k = "Unitful" -> UCeil(xa)
      [] xa.k = "jax.Array" -> HostCall("jax.Array", "ceil", xa)
      [] OTHER -> NoOverload(miss)

\* Bounds of the calls with several operands.
MaxArgs == 3      \* a call has 1..MaxArgs operands
ScaleStep == 3    \* the scales of the operands are 0, -ScaleStep, -2*ScaleStep

OverlayScales == {0, -ScaleStep, -2 * ScaleStep}
OverlayDims == {<<>>, [d \in {"m"} |-> IntV(1)], [d \in {"m"} |-> IntV(-1)]}

\* The operands of the calls: unit-carrying quantities (concrete; one with a
\* Fraction exponent; traced ones with a shadow and one without) and bare
\* operands of every kind.
OverlayQuantities ==
    {Unitful(Number(2, 0, 0, FALSE), Unit(s, dm), NoStaticArr) :
        s \in OverlayScales, dm \in OverlayDims}
    \cup {Unitful(Number(2, 0, 0, FALSE), Unit(0, [d \in {"m"} |-> Frac(1, 1)]), NoStaticArr),
          Unitful(Number(2, 0, 0, TRUE), Unit(-ScaleStep, [d \in {"m"} |-> IntV(1)]),
                  Number(2, 0, 0, FALSE)),
          Unitful(Number(2, 0, 0, TRUE), Unit(0, [d \in {"m"} |-> IntV(1)]), NoStaticArr),
          Unitful(Number(2, 0, 0, TRUE), Unit(0, [d \in {"m"} |-> IntV(1)]),
                  Number(2, 0, 0, FALSE)),
          Unitful(Number(2, 0, 0, TRUE), Unit(0, <<>>), Number(2, 0, 0, FALSE))}
RawOperands ==
    {Raw(kind, Number(3, 0, 0, FALSE)) :
        kind \in {"jax.Array", "np.ndarray", "float", "complex", "str"}}
ArgLists ==
    {List(items) : items \in UNION {[1..n -> OverlayQuantities \cup RawOperands] : n \in 1..MaxArgs}}

\* The target scales open to the call: those of handle_n_scales over the
\* scales of the quantities (a wrapped bare operand has scale 0).
ScalesOf(items) ==
    [i \in DOMAIN items |-> IF items[i].k = "Unitful" THEN items[i].unit.scale ELSE 0]

InitOverlay ==
    /\ focus = "overlay"
    /\ q \in ArgLists
    /\ ucall = [op |-> "args", arg |-> NoValue]
    /\ uout = NoValue

\* A call op(*q.items) has returned, or raised, r.  The functions are pure:
\* one call of each operand list shows all they do.
OReturned(op, r) ==
    /\ focus = "overlay"
    /\ uout = NoValue
    /\ ucall' = [op |-> op, arg |-> q]
    /\ uout' = r
    /\ UNCHANGED <<q, focus, patchVars, fracVars>>

Arity(n) == focus = "overlay" /\ Len(q.items) = n

CallSqrt == Arity(1) /\ \E miss \in FallbackErrors : OReturned("sqrt", sqrt(q.items[1], miss))
CallRoll == Arity(1) /\ \E miss \in FallbackErrors : OReturned("roll", roll(q.items[1], miss))
CallSquare == Arity(1) /\ \E miss \in FallbackErrors : OReturned("square", square(q.items[1], miss))
CallCross == Arity(2) /\ OReturned("cross", cross(q.items[1], q.items[2]))
CallConj == Arity(1) /\ \E miss \in FallbackErrors : OReturned("conj", conj(q.items[1], miss))
CallDot ==
    Arity(2) /\ \E miss \in FallbackErrors : OReturned("dot", dot(q.items[1], q.items[2], miss))
CallTranspose ==
    Arity(1) /\ \E miss \in FallbackErrors : OReturned("transpose", transpose(q.items[1], miss))
CallPad == Arity(1) /\ \E miss \in FallbackErrors : OReturned("pad", pad(q.items[1], miss))
\* stack(q.items): a sequence
CallStack ==
    /\ focus = "overlay"
    /\ \E miss \in FallbackErrors, physical \in BOOLEAN, target \in TargetScales(ScalesOf(q.items)) :
            OReturned("stack", stack(q, target, physical, miss))
\* stack(q.items[0]): one operand that is no sequence
CallStackOne ==
    /\ Arity(1)
    /\ \E miss \in FallbackErrors, physical \in BOOLEAN :
            OReturned("stack_one", stack(q.items[1], 0, physical, miss))
CallIsfinite ==
    Arity(1) /\ \E miss \in FallbackErrors : OReturned("isfinite", isfinite(q.items[1], miss))
CallReal == Arity(1) /\ \E miss \in FallbackErrors : OReturned("real", real(q.items[1], miss))
CallImag == Arity(1) /\ \E miss \in FallbackErrors : OReturned("imag", imag(q.items[1], miss))
CallSin == Arity(1) /\ \E miss \in FallbackErrors : OReturned("sin", sin(q.items[1], miss))
CallCos == Arity(1) /\ \E miss \in FallbackErrors : OReturned("cos", cos(q.items[1], miss))
CallTan == Arity(1) /\ \E miss \in FallbackErrors : OReturned("tan", tan(q.items[1], miss))
CallExp == Arity(1) /\ \E miss \in FallbackErrors : OReturned("exp", exp(q.items[1], miss))
CallExpandDims ==
    Arity(1) /\ \E miss \in FallbackErrors : OReturned("expand_dims", expand_dims(q.items[1], miss))
CallWhere ==
    /\ Arity(3)
    /\ \E miss \in FallbackErrors,
          target \in TargetScales(ScalesOf(<<q.items[2], q.items[3]>>)) :
            OReturned("where", where(q.items[1], q.items[2], q.items[3], target, miss))
CallMeshgrid ==
    /\ focus = "overlay"
    /\ \E miss \in FallbackErrors, target \in TargetScales(ScalesOf(q.items)) :
            OReturned("meshgrid", meshgrid(q, target, miss))
CallFloor == Arity(1) /\ \E miss \in FallbackErrors : OReturned("floor", floor(q.items[1], miss))
CallCeil == Arity(1) /\ \E miss \in FallbackErrors : OReturned("ceil", ceil(q.items[1], miss))

NextOverlay ==
    \/ CallSqrt \/ CallRoll \/ CallSquare \/ CallCross \/ CallConj \/ CallDot
    \/ CallTranspose \/ CallPad \/ CallStack \/ CallStackOne \/ CallIsfinite
    \/ CallReal \/ CallImag \/ CallSin \/ CallCos \/ CallTan \/ CallExp
    \/ CallExpandDims \/ CallWhere \/ CallMeshgrid \/ CallFloor \/ CallCeil

(***************************************************************************)
(*        core/physics/curl.py: curl and interpolation on a grid           *)
(***************************************************************************)

\* The payload of a field is an array of axes (component, x, y, z).  It is
\* kept as the sequence of its three components, each an array of three
\* axes [shape, at] with at[<<i, j, k>>] for indices from 0.  The unit of a
\* field is carried along by pad, roll and stack and is not repeated here.
Indices(shape) == (0..(shape[1] - 1)) \X (0..(shape[2] - 1)) \X (0..(shape[3] - 1))
Min(a, b) == IF a < b THEN a ELSE b
Max(a, b) == IF a < b THEN b ELSE a

\* a slice as written in curl.py: <<1, -1>> is 1:-1, <<2>> is 2:, <<0, -2>>
\* is :-2; its first index and its length on an axis of length n
SliceStart(sl, n) == Min(sl[1], n)
SliceStop(sl, n) ==
    IF Len(sl) = 1 THEN n
    ELSE IF sl[2] < 0 THEN Max(n + sl[2], 0) ELSE Min(sl[2], n)
SliceLen(sl, n) == Max(SliceStop(sl, n) - SliceStart(sl, n), 0)

\* a[sls[1], sls[2], sls[3]] with the stop of every slice left open
GetItemOpenEnded(a, sls) ==
    LET shape == [i \in 1..3 |-> Max(a.shape[i] - SliceStart(sls[i], a.shape[i]), 0)]
    IN  [shape |-> shape,
         at |-> [idx \in Indices(shape) |->
                    a.at[<<idx[1] + SliceStart(sls[1], a.shape[1]),
                           idx[2] + SliceStart(sls[2], a.shape[2]),
                           idx[3] + SliceStart(sls[3], a.shape[3])>>]]]

\* a[sls[1], sls[2], sls[3]]
GetItem(a, sls) ==
    LET shape == [i \in 1..3 |-> SliceLen(sls[i], a.shape[i])]
    IN  [shape |-> shape,
         at |-> [idx \in Indices(shape) |->
                    a.at[<<idx[1] + SliceStart(sls[1], a.shape[1]),
                           idx[2] + SliceStart(sls[2], a.shape[2]),
                           idx[3] + SliceStart(sls[3], a.shape[3])>>]]]

\* the host's pad of one component, always filling with zeros
PadAlwaysConstant(a, pad_width, mode) ==
    LET shape == [i \in 1..3 |-> a.shape[i] + pad_width[i][1] + pad_width[i][2]]
        from(idx) == <<idx[1] - pad_width[1][1], idx[2] - pad_width[2][1], idx[3] - pad_width[3][1]>>
        inside(s) == \A i \in 1..3 : s[i] >= 0 /\ s[i] < a.shape[i]
    IN  [shape |-> shape,
         at |-> [idx \in Indices(shape) |->
                    IF inside(from(idx)) THEN a.at[from(idx)] ELSE 0]]

\* ff.pad on one component: pad_width[i] = <<before, after>> along axis i;
\* mode "constant" fills with zeros, mode "wrap" with the values from the
\* opposite side
Pad(a, pad_width, mode) ==
    LET shape == [i \in 1..3 |-> a.shape[i] + pad_width[i][1] + pad_width[i][2]]
        from(idx) == <<idx[1] - pad_width[1][1], idx[2] - pad_width[2][1], idx[3] - pad_width[3][1]>>
        inside(s) == \A i \in 1..3 : s[i] >= 0 /\ s[i] < a.shape[i]
        wrapped(s) == <<s[1] % a.shape[1], s[2] % a.shape[2], s[3] % a.shape[3]>>
    IN  [shape |-> shape,
         at |-> [idx \in Indices(shape) |->
                    IF inside(from(idx)) THEN a.at[from(idx)]
                    ELSE IF mode = "wrap" THEN a.at[wrapped(from(idx))]
                    ELSE 0]]

\* ff.pad on a field: pad_width[1] is that of the component axis, (0, 0)
PadField(field, pad_width, mode) ==
    [c \in DOMAIN field |-> Pad(field[c], <<pad_width[2], pad_width[3], pad_width[4]>>, mode)]

\* the loop over the axes that pads each according to its boundary
PadWidth(i) == [ax \in 1..4 |-> IF ax = i + 2 THEN <<1, 1>> ELSE <<0, 0>>]
PadMode(periodic) == IF periodic THEN "wrap" ELSE "constant"
PadAxes(field, periodic_axes) ==
    LET after0 == PadField(field, PadWidth(0), PadMode(periodic_axes[1]))
        after1 == PadField(after0, PadWidth(1), PadMode(periodic_axes[2]))
    IN  PadField(after1, PadWidth(2), PadMode(periodic_axes[3]))

\* the host's roll with the shift taken the other way
RollBackwards(a, shift, axis) ==
    [shape |-> a.shape,
     at |-> [idx \in Indices(a.shape) |->
                a.at[[idx EXCEPT ![axis + 1] = (@ + shift) % a.shape[axis + 1]]]]]

\* ff.roll(a, shift, axis) on one component: the entry at i comes from i - shift
Roll(a, shift, axis) ==
    [shape |-> a.shape,
     at |-> [idx \in Indices(a.shape) |->
                a.at[[idx EXCEPT ![axis + 1] = (@ - shift) % a.shape[axis + 1]]]]]

\* a + b, a - b and a / d, entry by entry
ArrAdd(a, b) == [shape |-> a.shape, at |-> [idx \in Indices(a.shape) |-> a.at[idx] + b.at[idx]]]
ArrSub(a, b) == [shape |-> a.shape, at |-> [idx \in Indices(a.shape) |-> a.at[idx] - b.at[idx]]]
ArrDiv(a, d) == [shape |-> a.shape, at |-> [idx \in Indices(a.shape) |-> Reduced(Frac(a.at[idx], d))]]

\* ff.stack(components, axis=0): the components become the leading axis
StackComponents(components) == components
FieldShape(field) == <<Len(field)>> \o field[1].shape
Inner == <<<<1, -1>>, <<1, -1>>, <<1, -1>>>>

\* curl_E(E, resolution, periodic_axes)
curl_E(E, resolution, periodic_axes) ==
    LET E_pad == PadAxes(E, periodic_axes)
        curl_x == ArrSub(ArrAdd(ArrSub(Roll(E_pad[3], -1, 1), E_pad[3]), E_pad[2]), Roll(E_pad[2], -1, 2))
        curl_y == ArrSub(ArrAdd(ArrSub(Roll(E_pad[1], -1, 2), E_pad[1]), E_pad[3]), Roll(E_pad[3], -1, 0))
        curl_z == ArrSub(ArrAdd(ArrSub(Roll(E_pad[2], -1, 0), E_pad[2]), E_pad[1]), Roll(E_pad[1], -1, 1))
        curl == StackComponents(<<curl_x, curl_y, curl_z>>)
    IN  [c \in DOMAIN curl |-> ArrDiv(GetItem(curl[c], Inner), resolution)]

\* curl_H(H, resolution, periodic_axes)
curl_H(H, resolution, periodic_axes) ==
    LET H_pad == PadAxes(H, periodic_axes)
        curl_x == ArrAdd(ArrSub(ArrSub(H_pad[3], Roll(H_pad[3], 1, 1)), H_pad[2]), Roll(H_pad[2], 1, 2))
        curl_y == ArrAdd(ArrSub(ArrSub(H_pad[1], Roll(H_pad[1], 1, 2)), H_pad[3]), Roll(H_pad[3], 1, 0))
        curl_z == ArrAdd(ArrSub(ArrSub(H_pad[2], Roll(H_pad[2], 1, 0)), H_pad[1]), Roll(H_pad[1], 1, 1))
        curl == StackComponents(<<curl_x, curl_y, curl_z>>)
    IN  [c \in DOMAIN curl |-> ArrDiv(GetItem(curl[c], Inner), resolution)]

\* interpolate_fields(E_field, H_field, periodic_axes)
interpolate_fields(E_field, H_field, periodic_axes) ==
    LET E == PadAxes(E_field, periodic_axes)
        H == PadAxes(H_field, periodic_axes)
        mid == <<1, -1>>
        hi == <<2>>
        lo == <<0, -2>>
        Sum4(a, b, c, d) == ArrAdd(ArrAdd(ArrAdd(a, b), c), d)
        E_x == ArrDiv(Sum4(GetItem(E[1], <<mid, mid, mid>>), GetItem(E[1], <<mid, mid, lo>>),
                           GetItem(E[1], <<hi, mid, mid>>), GetItem(E[1], <<hi, mid, lo>>)), 4)
        E_y == ArrDiv(Sum4(GetItem(E[2], <<mid, mid, mid>>), GetItem(E[2], <<mid, lo, mid>>),
                           GetItem(E[2], <<hi, mid, mid>>), GetItem(E[2], <<hi, lo, mid>>)), 4)
        E_z == ArrDiv(GetItem(E[3], <<mid, mid, mid>>), 1)    \* left as it is
        H_x == ArrDiv(ArrAdd(GetItem(H[1], <<mid, hi, mid>>), GetItem(H[1], <<mid, lo, mid>>)), 2)
        H_y == ArrDiv(ArrAdd(GetItem(H[2], <<mid, mid, hi>>), GetItem(H[2], <<mid, mid, lo>>)), 2)
        H_z == ArrDiv(ArrAdd(Sum4(GetItem(H[3], <<lo, hi, hi>>), GetItem(H[3], <<lo, hi, lo>>),
                                  GetItem(H[3], <<lo, lo, hi>>), GetItem(H[3], <<lo, lo, lo>>)),
                             Sum4(GetItem(H[3], <<hi, hi, hi>>), GetItem(H[3], <<hi, hi, lo>>),
                                  GetItem(H[3], <<hi, lo, hi>>), GetItem(H[3], <<hi, lo, lo>>))), 8)
    IN  <<StackComponents(<<E_x, E_y, E_z>>), StackComponents(<<H_x, H_y, H_z>>)>>

MaxGrid == 3        \* cells along one axis
MaxRes == 2         \* the resolution, in metres

\* The fields the curl is taken of: constant ones, E = (y, -x, 0) and
\* H = (z, 0, -x) on the grid of the given shape.
Uniform == {<<1, 1, 1>>, <<2, 2, 2>>, <<1, -2, 3>>}
FieldKinds == {[kind |-> "uniform", c |-> c] : c \in Uniform}
                \cup {[kind |-> "linear_E"], [kind |-> "linear_H"]}
FieldOf(kind, shape) ==
    LET comp(f(_)) == [shape |-> shape, at |-> [idx \in Indices(shape) |-> f(idx)]]
        cx(idx) == kind.c[1]
        cy(idx) == kind.c[2]
        cz(idx) == kind.c[3]
        zero(idx) == 0
        X(idx) == idx[1]
        Y(idx) == idx[2]
        Z(idx) == idx[3]
        negX(idx) == -idx[1]
    IN  CASE kind.kind = "uniform" -> <<comp(cx), comp(cy), comp(cz)>>
          [] kind.kind = "linear_E" -> <<comp(Y), comp(negX), comp(zero)>>
          [] kind.kind = "linear_H" -> <<comp(Z), comp(zero), comp(negX)>>

GridShapes == (1..MaxGrid) \X (1..MaxGrid) \X (1..MaxGrid)
CurlInputs ==
    [kind : FieldKinds, shape : GridShapes, resolution : 1..MaxRes,
     periodic_axes : BOOLEAN \X BOOLEAN \X BOOLEAN]

InitCurl ==
    /\ focus = "curl"
    /\ q \in CurlInputs
    /\ ucall = [op |-> "args", arg |-> NoValue]
    /\ uout = NoValue

\* A call of op on the field of q has returned r.
CurlReturned(op, r) ==
    /\ focus = "curl"
    /\ uout = NoValue
    /\ ucall' = [op |-> op, arg |-> q]
    /\ uout' = r
    /\ UNCHANGED <<q, focus, patchVars, fracVars>>

CallCurlE == CurlReturned("curl_E", curl_E(FieldOf(q.kind, q.shape), q.resolution, q.periodic_axes))
CallCurlH == CurlReturned("curl_H", curl_H(FieldOf(q.kind, q.shape), q.resolution, q.periodic_axes))
CallInterpolateFields ==
    CurlReturned("interpolate_fields",
                 interpolate_fields(FieldOf(q.kind, q.shape), FieldOf(q.kind, q.shape), q.periodic_axes))

NextCurl == CallCurlE \/ CallCurlH \/ CallInterpolateFields

(***************************************************************************)
(*     functional/patching.py: patch_fn_to_module in two threads           *)
(***************************************************************************)

\* The host's interpreter may switch threads between any two statements of
\* patch_fn_to_module.  A thread's position pc is the statement it runs
\* next: "check" is the condition of the if, "get" the getattr and "save"
\* the setattr of the line that keeps the original, "replace" the last line.
Threads == {"t1", "t2"}
ThreadIdle == [pc |-> "idle", f |-> None, mod |-> None, fn_name |-> None, value |-> Absent]

\* the condition of the if without its test for the saved original
NeedsSaveWheneverDefined(nsm, fn_name) == HasAttr(nsm, AttrName(fn_name))

\* hasattr(mod, fn_name) and not hasattr(mod, original_name)
NeedsSave(nsm, fn_name) ==
    HasAttr(nsm, AttrName(fn_name)) /\ ~HasAttr(nsm, OriginalName(fn_name))

InitRace ==
    /\ focus = "race"
    /\ \E missing \in SUBSET OptionalHostFns : host = HostNamespace(missing)
    /\ ns = host
    /\ hist = <<>>
    /\ q = [t \in Threads |-> ThreadIdle]
    /\ ucall = NoValue
    /\ uout = NoValue

RaceUnchanged == UNCHANGED <<host, focus, fracVars, ucall, uout>>

\* thread t enters patch_fn_to_module(f, mod, fn_name): lines 66-71
Enter(t) ==
    /\ focus = "race"
    /\ q[t].pc = "idle"
    /\ \E c \in SingleCalls :
        /\ q' = [q EXCEPT ![t] = [pc |-> "check", f |-> c[1], mod |-> c[2],
                                  fn_name |-> ResolveName(c[1], c[3]), value |-> Absent]]
        /\ hist' = Append(hist, <<t, "enter">>)
    /\ UNCHANGED ns
    /\ RaceUnchanged

\* the condition of line 72
CheckOriginal(t) ==
    /\ focus = "race"
    /\ q[t].pc = "check"
    /\ q' = [q EXCEPT ![t].pc = IF NeedsSave(ns[q[t].mod], q[t].fn_name) THEN "get" ELSE "replace"]
    /\ UNCHANGED <<ns, hist>>
    /\ RaceUnchanged

\* getattr(mod, fn_name), the argument of the setattr of line 73
GetCurrent(t) ==
    /\ focus = "race"
    /\ q[t].pc = "get"
    /\ q' = [q EXCEPT ![t].pc = "save",
                      ![t].value = GetAttr(ns[q[t].mod], AttrName(q[t].fn_name))]
    /\ UNCHANGED <<ns, hist>>
    /\ RaceUnchanged

\* setattr(mod, original_name, <the value read>) of line 73
SaveOriginal(t) ==
    /\ focus = "race"
    /\ q[t].pc = "save"
    /\ ns' = [ns EXCEPT ![q[t].mod] = SetAttr(@, OriginalName(q[t].fn_name), q[t].value)]
    /\ q' = [q EXCEPT ![t].pc = "replace"]
    /\ UNCHANGED hist
    /\ RaceUnchanged

\* setattr(mod, fn_name, fn_copy) of line 74, and the return
Replace(t) ==
    /\ focus = "race"
    /\ q[t].pc = "replace"
    /\ ns' = [ns EXCEPT ![q[t].mod] =
                SetAttr(@, AttrName(q[t].fn_name), FnCopy(q[t].f, q[t].mod, q[t].fn_name))]
    /\ q' = [q EXCEPT ![t].pc = "done"]
    /\ hist' = Append(hist, <<t, "return">>)
    /\ RaceUnchanged

NextRace ==
    \E t \in Threads :
        Enter(t) \/ CheckOriginal(t) \/ GetCurrent(t) \/ SaveOriginal(t) \/ Replace(t)

(***************************************************************************)
(*              units/__init__.py: the declared units                      *)
(***************************************************************************)

\* dim={...}: the exponents as written, over the base dimensions written
Dim(exponents) == [d \in DOMAIN exponents |-> IntV(exponents[d])]

\* The module's Unit constants, by name.  (W_unit is declared twice, lines
\* 45 and 91, with the same value.)
Units ==
    [s_unit |-> Unit(0, Dim([s |-> 1])),
     ms_unit |-> Unit(-3, Dim([s |-> 1])),
     us_unit |-> Unit(-6, Dim([s |-> 1])),
     ns_unit |-> Unit(-9, Dim([s |-> 1])),
     ps_unit |-> Unit(-12, Dim([s |-> 1])),
     fs_unit |-> Unit(-15, Dim([s |-> 1])),
     Hz_unit |-> Unit(0, Dim([s |-> -1])),
     kHz_unit |-> Unit(3, Dim([s |-> -1])),
     MHz_unit |-> Unit(6, Dim([s |-> -1])),
     GHz_unit |-> Unit(9, Dim([s |-> -1])),
     THz_unit |-> Unit(12, Dim([s |-> -1])),
     PHz_unit |-> Unit(15, Dim([s |-> -1])),
     km_unit |-> Unit(3, Dim([m |-> 1])),
     m_unit |-> Unit(0, Dim([m |-> 1])),
     mm_unit |-> Unit(-3, Dim([m |-> 1])),
     um_unit |-> Unit(-6, Dim([m |-> 1])),
     nm_unit |-> Unit(-9, Dim([m |-> 1])),
     pm_unit |-> Unit(-12, Dim([m |-> 1])),
     MW_unit |-> Unit(6, Dim([kg |-> 1, m |-> 2, s |-> -3])),
     kW_unit |-> Unit(3, Dim([kg |-> 1, m |-> 2, s |-> -3])),
     W_unit |-> Unit(0, Dim([kg |-> 1, m |-> 2, s |-> -3])),
     mW_unit |-> Unit(-3, Dim([kg |-> 1, m |-> 2, s |-> -3])),
     uW_unit |-> Unit(-6, Dim([kg |-> 1, m |-> 2, s |-> -3])),
     kV_unit |-> Unit(3, Dim([kg |-> 1, m |-> 2, s |-> -3, A |-> -1])),
     V_unit |-> Unit(0, Dim([kg |-> 1, m |-> 2, s |-> -3, A |-> -1])),
     mV_unit |-> Unit(-3, Dim([kg |-> 1, m |-> 2, s |-> -3, A |-> -1])),
     uV_unit |-> Unit(-6, Dim([kg |-> 1, m |-> 2, s |-> -3, A |-> -1])),
     kA_unit |-> Unit(3, Dim([A |-> 1])),
     A_unit |-> Unit(0, Dim([A |-> 1])),
     mA_unit |-> Unit(-3, Dim([A |-> 1])),
     uA_unit |-> Unit(-6, Dim([A |-> 1])),
     F_unit |-> Unit(0, Dim([s |-> 4, A |-> 2, m |-> -2, kg |-> -2])),
     mF_unit |-> Unit(-3, Dim([s |-> 4, A |-> 2, m |-> -2, kg |-> -2])),
     uF_unit |-> Unit(-6, Dim([s |-> 4, A |-> 2, m |-> -2, kg |-> -2])),
     nF_unit |-> Unit(-9, Dim([s |-> 4, A |-> 2, m |-> -2, kg |-> -2])),
     pF_unit |-> Unit(-12, Dim([s |-> 4, A |-> 2, m |-> -2, kg |-> -2])),
     fF_unit |-> Unit(-15, Dim([s |-> 4, A |-> 2, m |-> -2, kg |-> -2])),
     N_unit |-> Unit(0, Dim([kg |-> 1, m |-> 1, s |-> -2])),
     J_unit |-> Unit(0, Dim([kg |-> 1, m |-> 2, s |-> -2])),
     m_per_s_unit |-> Unit(0, Dim([s |-> -1, m |-> 1])),
     V_per_m_unit |-> Unit(0, Dim([kg |-> 1, m |-> 1, s |-> -3, A |-> -1])),
     A_per_m_unit |-> Unit(0, Dim([A |-> 1, m |-> -1]))]

\* the unit of each declared quantity s, ms, ..., V, A, F, N, J, W: its
\* <name>_unit, with val=1.0
UnitNames == DOMAIN Units

\* the unit of a * b: scales add, dimensions combine
UnitMul(a, b) == Unit(a.scale + b.scale, DimAfterMultiplication(a.dim, b.dim))
\* the unit of a / b: scales subtract, the exponents of b are subtracted
ExponentNeg(e) == IF IsInt(e) THEN IntV(-e.num) ELSE Frac(-e.num, e.denom)
UnitDiv(a, b) ==
    Unit(a.scale - b.scale,
         DimAfterMultiplication(a.dim, [d \in DOMAIN b.dim |-> ExponentNeg(b.dim[d])]))

MaxFactors == 2     \* products and quotients of up to MaxFactors + 1 units

\* the quantities the expressions multiply and divide by
Factors == {"s_unit", "m_unit", "A_unit", "V_unit", "W_unit", "N_unit", "J_unit"}

InitUnits ==
    /\ focus = "units"
    /\ q \in UnitNames
    /\ ucall = <<>>
    /\ uout = Units[q]

\* the expression so far, times or divided by the quantity of unit name
TimesUnit(name) ==
    /\ focus = "units"
    /\ Len(ucall) < MaxFactors
    /\ ucall' = Append(ucall, <<"*", name>>)
    /\ uout' = UnitMul(uout, Units[name])
    /\ UNCHANGED <<q, focus, patchVars, fracVars>>

OverUnit(name) ==
    /\ focus = "units"
    /\ Len(ucall) < MaxFactors
    /\ ucall' = Append(ucall, <<"/", name>>)
    /\ uout' = UnitDiv(uout, Units[name])
    /\ UNCHANGED <<q, focus, patchVars, fracVars>>

NextUnits == \E name \in Factors : TimesUnit(name) \/ OverUnit(name)

(***************************************************************************)
(*                          Specifications                                 *)
(***************************************************************************)

PatchInit == InitPatch /\ IdleFraction /\ IdleUnitful
FractionInit == InitFraction /\ IdlePatch /\ IdleUnitful
UnitfulInit == InitUnitful /\ IdlePatch /\ IdleFraction
OverlayInit == InitOverlay /\ IdlePatch /\ IdleFraction
CurlInit == InitCurl /\ IdlePatch /\ IdleFraction
RaceInit == InitRace /\ IdleFraction
UnitsInit == InitUnits /\ IdlePatch /\ IdleFraction

SpecPatch == PatchInit /\ [][NextPatch]_vars
SpecFraction == FractionInit /\ [][NextFraction]_vars
SpecUnitful == UnitfulInit /\ [][NextUnitful]_vars
SpecOverlay == OverlayInit /\ [][NextOverlay]_vars
SpecCurl == CurlInit /\ [][NextCurl]_vars
SpecRace == RaceInit /\ [][NextRace]_vars
SpecUnits == UnitsInit /\ [][NextUnits]_vars

Init ==
    PatchInit \/ FractionInit \/ UnitfulInit \/ OverlayInit \/ CurlInit \/ RaceInit \/ UnitsInit
Next ==
    NextPatch \/ NextFraction \/ NextUnitful \/ NextOverlay \/ NextCurl \/ NextRace \/ NextUnits
Spec == Init /\ [][Next]_vars


(***************************************************************************)
(*                              Claims                                     *)
(***************************************************************************)

AtPatch == focus = "patch"
AtFraction(ops) == focus = "fraction" /\ call # NoValue /\ call.op \in ops
AtSqrt == focus = "unitful" /\ ucall.op = "sqrt" /\ uout.k = "Unitful"

\* The rational a.num/a.denom of an int or a Fraction, compared exactly.
RatLess(a, b) ==
    a.num * b.denom * Sign(a.denom * b.denom) < b.num * a.denom * Sign(a.denom * b.denom)
RatEqual(a, b) == a.num * b.denom = b.num * a.denom
\* r is the Fraction n/d exactly
ExactValue(r, n, d) == r.num * d = n * r.denom
LowestTerms(r) == r.denom > 0 /\ Gcd(Abs(r.num), r.denom) = 1
Exact(v) == IsInt(v) \/ IsFraction(v)

\* C1: after any sequence of installation calls, every _orig_N that exists is
\* the host module's pre-installation implementation of N, never a unit-aware
\* replacement, for any host module, whether or not it defined N.
C1_OrigIsHostOriginal ==
    AtPatch =>
        \A mod \in Modules : \A n \in PatchedNames(mod) :
            HasAttr(ns[mod], OriginalName(n)) =>
                /\ GetAttr(ns[mod], OriginalName(n)).kind = "host"
                /\ GetAttr(ns[mod], OriginalName(n)) = GetAttr(host[mod], AttrName(n))

\* C2: installation is idempotent: the same installation call made twice (or
\* more) leaves the namespaces as making it once does.
C2_InstallIdempotent ==
    (AtPatch /\ Len(hist) >= 2 /\ \A i \in 1..Len(hist) : hist[i] = hist[1])
        => ns = ApplyCall(host, hist[1])

\* C3: reduced() keeps the rational value, returns lowest terms with a
\* positive denominator (0/1 for zero), and is idempotent field by field.
C3_ReducedCanonical ==
    AtFraction({"reduced"}) =>
        /\ IsFraction(out)
        /\ ExactValue(out, call.a.num, call.a.denom)
        /\ LowestTerms(out)
        /\ (call.a.num = 0 => out = Frac(0, 1))
        /\ Reduced(out) = out

C3_Witness ==
    /\ AtFraction({"reduced"})
    /\ call.a.denom < 0
    /\ Gcd(Abs(call.a.num), Abs(call.a.denom)) > 1
    /\ out.denom > 0

ArithOps == {"add", "radd", "sub", "rsub", "mul", "rmul", "truediv", "rtruediv"}

\* The mathematical result of an arithmetic call on exact operands, as a
\* pair <<numerator, denominator>>.
MathResult(op, a, b) ==
    CASE op \in {"add", "radd"} -> <<a.num * b.denom + b.num * a.denom, a.denom * b.denom>>
      [] op \in {"sub", "rsub"} -> <<a.num * b.denom - b.num * a.denom, a.denom * b.denom>>
      [] op \in {"mul", "rmul"} -> <<a.num * b.num, a.denom * b.denom>>
      [] op \in {"truediv", "rtruediv"} -> <<a.num * b.denom, a.denom * b.num>>
      [] op = "neg" -> <<-a.num, a.denom>>
      [] op = "pow" ->
            IF b.num >= 0 THEN <<IPow(a.num, b.num), IPow(a.denom, b.num)>>
            ELSE <<IPow(a.denom, -b.num), IPow(a.num, -b.num)>>

\* C4: every result of add, subtract, multiply, divide, integer power and
\* negate (reflected forms included) on Fractions and integers that does not
\* raise is a Fraction in lowest terms with a positive denominator whose value
\* is exactly the mathematical result; so is every operand of a later call.
C4_ArithmeticExact ==
    (AtFraction(ArithOps \cup {"pow", "neg"})
        /\ Exact(call.a) /\ (call.op # "neg" => Exact(call.b)))
    => /\ IsFraction(out) \/ IsRaise(out)
       /\ IsFraction(out) =>
            /\ LowestTerms(out)
            /\ ExactValue(out, MathResult(call.op, call.a, call.b)[1],
                               MathResult(call.op, call.a, call.b)[2])

C4_Witness ==
    /\ AtFraction({"radd"})
    /\ IsInt(call.a)
    /\ call.b.denom < 0
    /\ IsFraction(out)
    /\ out.denom > 1

\* C5: every Fraction division whose divisor has value zero raises
\* ZeroDivisionError (Fraction / 0, Fraction / Fraction(0, d), Fraction / 0.0,
\* n / Fraction(0, d) for an int or float n), and no division returns a
\* Fraction with a zero denominator.
C5_DivisionByZeroRaises ==
    AtFraction({"truediv", "rtruediv"}) =>
        /\ call.b.num = 0 => IsRaise(out)
        /\ IsFraction(out) => out.denom # 0

C5_Witness ==
    /\ AtFraction({"truediv"})
    /\ IsInt(call.b)
    /\ call.b.num = 0
    /\ call.a.num # 0
    /\ IsRaise(out)

\* C6: integer power raises on 0^0 and raises ZeroDivisionError on a zero base
\* with a negative exponent; otherwise it returns exactly base^n, with
\* x^0 = 1 for nonzero x and x^(-n) = 1/(x^n).
C6_PowExact ==
    AtFraction({"pow"}) =>
        LET a == call.a
            n == call.b.num
        IN  IF a.num = 0 /\ n = 0
            THEN out = Raise("ZeroDivisionError", "0^0 is undefined")
            ELSE IF a.num = 0 /\ n < 0
            THEN IsRaise(out)
            ELSE /\ IsFraction(out)
                 /\ ExactValue(out, MathResult("pow", a, IntV(n))[1],
                                    MathResult("pow", a, IntV(n))[2])
                 /\ (n = 0 => out = Frac(1, 1))
                 /\ (n < 0 => out.num * FPow(a, -n).num = out.denom * FPow(a, -n).denom)

C6_Witness ==
    /\ AtFraction({"pow"})
    /\ call.a.num = 0
    /\ call.a.denom < 0
    /\ call.b.num = 0
    /\ IsRaise(out)

\* What a comparison of two exact values must return.
ExactCompare(op, a, b) ==
    CASE op = "<" -> RatLess(a, b)
      [] op = "<=" -> RatLess(a, b) \/ RatEqual(a, b)
      [] op = ">" -> RatLess(b, a)
      [] op = ">=" -> RatLess(b, a) \/ RatEqual(a, b)
      [] op = "==" -> RatEqual(a, b)
      [] op = "!=" -> ~RatEqual(a, b)

\* C7: comparisons of Fractions and integers are exact, for Fractions reduced
\* or not and with a denominator of either sign: a < b iff the value of a is
\* less than that of b, and likewise for <=, >, >=, ==, !=.
C7_ComparisonExact ==
    (AtFraction(CompareOps) /\ Exact(call.a) /\ Exact(call.b))
        => out = BoolV(ExactCompare(call.op, call.a, call.b))

\* C8: str and repr yield the plain integer when the value is integral
\* (unreduced forms such as 4/2 and 3/-1 included) and the form (num/denom)
\* only when it is not.
C8_RenderIntegral ==
    AtFraction({"str", "repr"}) =>
        IF call.a.num % Abs(call.a.denom) = 0
        THEN out = StrInt((call.a.num * Sign(call.a.denom)) \div Abs(call.a.denom))
        ELSE out.form = "(num/denom)"

\* C9: sqrt halves every dimension exponent exactly: an even integer v becomes
\* the integer v/2, an odd integer v the Fraction v/2 with denominator 2, a
\* Fraction r the Fraction r/2; the base dimensions stay the same and twice
\* each new exponent equals the old one.
C9_SqrtHalvesExponents ==
    AtSqrt =>
        LET old == ucall.arg.unit.dim
            new == uout.unit.dim
        IN  /\ DOMAIN new = DOMAIN old
            /\ \A d \in DOMAIN old :
                /\ (IsInt(old[d]) /\ old[d].num % 2 = 0) => IsInt(new[d])
                /\ (IsInt(old[d]) /\ old[d].num % 2 = 1) =>
                        IsFraction(new[d]) /\ new[d].denom = 2
                /\ IsFraction(old[d]) => IsFraction(new[d]) /\ LowestTerms(new[d])
                \* twice the new exponent is the old one: new = old.num / (2 * old.denom)
                /\ ExactValue(new[d], old[d].num, 2 * old[d].denom)

C9_Witness ==
    /\ AtSqrt
    /\ DOMAIN ucall.arg.unit.dim = BaseDims
    /\ ucall.arg.unit.dim["m"] = IntV(-1)
    /\ ucall.arg.unit.dim["s"] = Frac(-3, 2)
    /\ uout.unit.dim["m"] = Frac(-1, 2)
    /\ uout.unit.dim["s"] = Frac(-3, 4)

\* C10: sqrt of a quantity with integer scale s returns the integer scale s'
\* and the payload sqrt(val) * f with 2*s' + k = s: k = 0 and f = 1 when s is
\* even; k = 1, s' = floor(s/2) and f = sqrt(10) when s is odd.
C10_SqrtScale ==
    AtSqrt =>
        LET s == ucall.arg.unit.scale
            val == ucall.arg.val
            k == s - 2 * uout.unit.scale
        IN  /\ uout.unit.scale \in Int
            /\ k = s % 2
            /\ 2 * uout.unit.scale <= s /\ s < 2 * (uout.unit.scale + 1)
            /\ uout.val.v = val.v
            /\ uout.val.r = val.r + 1
            \* sqrt(val) * sqrt(10)^k = v^(1/2^(r+1)) * 10^((t + k*2^r) / 2^(r+1))
            /\ uout.val.t = val.t + k * IPow(2, val.r)

C10_Witness ==
    /\ AtSqrt
    /\ ucall.arg.unit.scale = -3
    /\ uout.unit.scale = -2
    /\ uout.val.t = ucall.arg.val.t + IPow(2, ucall.arg.val.r)


AtSqrtOfSquare == focus = "unitful" /\ ucall.op = "sqrt(square)"
EvenExponents(dim) ==
    \A d \in DOMAIN dim : IsInt(dim[d]) /\ dim[d].num % 2 = 0

\* C11: for a quantity x whose dimension exponents are all even,
\* sqrt(square(x)) has the dimension mapping of x and the scale of x, and its
\* payload is the payload of x with no factor sqrt(10).
C11_SqrtOfSquare ==
    (AtSqrtOfSquare /\ EvenExponents(ucall.arg.unit.dim)) =>
        /\ uout.k = "Unitful"
        /\ uout.unit.dim = ucall.arg.unit.dim
        /\ uout.unit.scale = ucall.arg.unit.scale
        /\ Canon(uout.val) = Canon(ucall.arg.val)

\* sqrt(square(x)) at the odd scale -3 with exponents m^2 s^-2
C11_Witness ==
    /\ AtSqrtOfSquare
    /\ ucall.arg.unit.scale = -3
    /\ DOMAIN ucall.arg.unit.dim = BaseDims
    /\ ucall.arg.unit.dim["m"] = IntV(2)
    /\ ucall.arg.unit.dim["s"] = IntV(-2)
    /\ ucall.arg.val.v = 2
    /\ uout.unit.scale = -3
    /\ uout.unit.dim = ucall.arg.unit.dim
    /\ Canon(uout.val).v = 2


AtOp(ops) == focus = "unitful" /\ ucall.op \in ops
Dimensionless(xq) == DOMAIN xq.unit.dim = {}
Raised(r) ==
    r.k \in {"Exception", "AssertionError", "NotImplementedError", "NotFoundLookupError"}

\* C12: sin, cos and tan of a quantity whose dimension mapping is not empty
\* raise an error and never return a value.
C12_TrigRequiresDimensionless ==
    (AtOp({"sin", "cos", "tan"}) /\ ~Dimensionless(ucall.arg)) => Raised(uout)

\* C13: exp of a quantity whose dimension mapping is not empty raises the
\* assertion error and returns no value.
C13_ExpRequiresDimensionless ==
    (AtOp({"exp"}) /\ ~Dimensionless(ucall.arg)) => uout.k = "AssertionError"

\* exp of a quantity in m^1 at scale -3 has raised
C13_Witness ==
    /\ AtOp({"exp"})
    /\ DOMAIN ucall.arg.unit.dim = {"m"}
    /\ ucall.arg.unit.dim["m"] = IntV(1)
    /\ ucall.arg.unit.scale = -3
    /\ uout.k = "AssertionError"

\* C14: exp, sin, cos and tan of a dimensionless quantity with payload v and
\* scale s return a dimensionless quantity of scale 0 whose payload is the
\* function at v * 10^s, so that the result is the same for every split of
\* one value between payload and scale.
C14_FoldsScale ==
    (AtOp({"exp", "sin", "cos", "tan"}) /\ Dimensionless(ucall.arg)) =>
        /\ uout.k = "Unitful"
        /\ uout.unit = Unit(0, <<>>)
        /\ uout.val = Applied(ucall.op, ScaleBy(ucall.arg.val, ucall.arg.unit.scale))

\* C15: floor and ceil raise when the operand's dimension mapping is not
\* empty; of a dimensionless operand they return a quantity whose unit (empty
\* dimension mapping, the operand's scale) is the operand's unit.
C15_FloorCeilKeepUnit ==
    AtOp({"floor", "ceil"}) =>
        IF Dimensionless(ucall.arg)
        THEN /\ uout.k = "Unitful"
             /\ uout.unit = ucall.arg.unit
             /\ uout.unit.dim = <<>>
        ELSE uout.k = "AssertionError"

\* floor of a dimensionless quantity at scale 2 has kept scale 2
C15_Witness ==
    /\ AtOp({"floor"})
    /\ Dimensionless(ucall.arg)
    /\ ucall.arg.unit.scale = 2
    /\ uout.k = "Unitful"
    /\ uout.unit.scale = 2


AtCall(ops) == focus = "overlay" /\ ucall.op \in ops
AllUnitful(items) == \A i \in DOMAIN items : items[i].k = "Unitful"
Kinds(items) == [i \in DOMAIN items |-> items[i].k]
\* two dimension mappings are the same mapping of base dimensions to rationals
MapEqual(dim1, dim2) ==
    /\ DOMAIN dim1 = DOMAIN dim2
    /\ \A d \in DOMAIN dim1 : RatEqual(dim1[d], dim2[d])
SameDims(items) == \A i \in DOMAIN items : MapEqual(items[i].unit.dim, items[1].unit.dim)

\* C16: stack and meshgrid of quantities raise the dimension-mismatch error,
\* and produce no result, when the dimension mapping of some element differs
\* from the first element's; when all the mappings are equal they do not
\* raise, whatever the scales.
C16_DimMismatchRaises ==
    (AtCall({"stack", "meshgrid"}) /\ AllUnitful(ucall.arg.items)) =>
        IF SameDims(ucall.arg.items) THEN ~Raised(uout) ELSE uout.k = "Exception"

\* stack of a quantity in m at scale 0 and one in m^-1 at scale -3 has raised
C16_Witness ==
    /\ AtCall({"stack"})
    /\ AllUnitful(ucall.arg.items)
    /\ Len(ucall.arg.items) = 2
    /\ ucall.arg.items[1].unit = Unit(0, [d \in {"m"} |-> IntV(1)])
    /\ ucall.arg.items[2].unit = Unit(-ScaleStep, [d \in {"m"} |-> IntV(-1)])
    /\ uout.k = "Exception"

\* C17: stack of N quantities of one dimension with scales s_1..s_N returns
\* one quantity with a single scale S and the operands' dimension, whose i-th
\* slice is val_i * 10^(s_i - S).
C17_StackRescales ==
    (AtCall({"stack"}) /\ AllUnitful(ucall.arg.items) /\ SameDims(ucall.arg.items)) =>
        LET items == ucall.arg.items
        IN  /\ uout.k = "Unitful"
            /\ uout.unit.scale \in Int
            /\ MapEqual(uout.unit.dim, items[1].unit.dim)
            /\ DOMAIN uout.val.of = DOMAIN items
            /\ \A i \in DOMAIN items :
                    uout.val.of[i] =
                        Canon(ScaleBy(items[i].val, items[i].unit.scale - uout.unit.scale))

\* stack of three quantities at scales 0, -3, -6 at the target scale -3: the
\* slices are 2 * 10^3, 2 and 2 * 10^-3
C17_Witness ==
    /\ AtCall({"stack"})
    /\ AllUnitful(ucall.arg.items)
    /\ Len(ucall.arg.items) = 3
    /\ \A i \in 1..3 : ucall.arg.items[i].unit = Unit(-ScaleStep * (i - 1), [d \in {"m"} |-> IntV(1)])
    /\ uout.k = "Unitful"
    /\ uout.unit = Unit(-ScaleStep, [d \in {"m"} |-> IntV(1)])
    /\ \A i \in 1..3 : uout.val.of[i] = Number(2, 0, ScaleStep * (2 - i), FALSE)

BareArray(a) == a.k \in {"jax.Array", "np.ndarray"}
\* a sequence of quantities and bare arrays with one of each at least
Mixed(items) ==
    /\ \E i \in DOMAIN items : items[i].k = "Unitful"
    /\ \E i \in DOMAIN items : BareArray(items[i])
    /\ \A i \in DOMAIN items : items[i].k = "Unitful" \/ BareArray(items[i])

\* C18: stack of a sequence that mixes quantities and bare arrays wraps the
\* bare arrays as dimensionless and returns a quantity; it neither fails the
\* dispatch nor returns a bare array.
C18_StackWrapsBare ==
    (AtCall({"stack"}) /\ Mixed(ucall.arg.items)) => uout.k = "Unitful"

OverlaidOps ==
    {"sqrt", "roll", "square", "cross", "conj", "dot", "transpose", "pad",
     "stack", "stack_one", "isfinite", "real", "imag", "sin", "cos", "tan",
     "exp", "expand_dims", "where", "meshgrid", "floor", "ceil"}
\* The operand kinds the annotated overloads of the functions of one operand
\* are registered for.
OneOperandKinds ==
    [op \in {"roll", "transpose", "pad", "isfinite", "expand_dims", "floor", "ceil"}
        |-> {"Unitful", "jax.Array"}]
    @@ [op \in {"sqrt", "exp"} |-> {"Unitful", "float", "jax.Array"}]
    @@ [op \in {"square", "conj", "real", "imag"} |-> {"Unitful", "float", "complex", "jax.Array"}]
    @@ [op \in {"sin", "cos", "tan"} |-> {"Unitful", "float", "np.ndarray", "jax.Array"}]
    @@ [op \in {"stack_one"} |-> {"Unitful"} \cup ArrayLikeKinds]
\* The operand kinds of the call match an annotated overload of op.
MatchesAnnotated(op, ks) ==
    CASE op \in DOMAIN OneOperandKinds -> ks[1] \in OneOperandKinds[op]
      [] op = "cross" -> ks \in {<<"Unitful", "Unitful">>, <<"jax.Array", "jax.Array">>}
      [] op = "dot" ->
            \/ ks[1] = "Unitful" /\ ks[2] \in {"Unitful", "jax.Array", "np.ndarray"}
            \/ ks[1] \in {"jax.Array", "np.ndarray"} /\ ks[2] = "Unitful"
            \/ ks = <<"jax.Array", "jax.Array">>
      [] op = "where" ->
            \/ ks = <<"Unitful", "Unitful", "Unitful">>
            \/ /\ ks[1] \in {"jax.Array", "Unitful"}
               /\ \/ ks[2] \in ArrayLikeKinds /\ ks[3] = "Unitful"
                  \/ ks[2] = "Unitful" /\ ks[3] \in ArrayLikeKinds
            \/ ks[1] = "jax.Array" /\ ks[2] \in ArrayLikeKinds /\ ks[3] \in ArrayLikeKinds
      [] op \in {"stack", "meshgrid"} ->
            \/ \A i \in DOMAIN ks : ks[i] = "Unitful"
            \/ \A i \in DOMAIN ks : ks[i] \in ArrayLikeKinds

\* C19: a call of an overlaid function whose operand kinds match no
\* registered implementation ends in the unsupported-operand error and
\* returns no value.
C19_UnmatchedRaises ==
    (AtCall(OverlaidOps) /\ ~MatchesAnnotated(ucall.op, Kinds(ucall.arg.items))) =>
        uout.k \in FallbackErrors

\* cross of a quantity and a bare array has raised NotImplementedError
C19_Witness ==
    /\ AtCall({"cross"})
    /\ Kinds(ucall.arg.items) = <<"Unitful", "jax.Array">>
    /\ uout.k = "NotImplementedError"

ExponentOf(dim, d) == IF d \in DOMAIN dim THEN dim[d] ELSE IntV(0)
\* the sum of the exponents of d in dim1 and dim2, as a rational
ExponentSum(dim1, dim2, d) ==
    LET a == ExponentOf(dim1, d)
        b == ExponentOf(dim2, d)
    IN  [num |-> a.num * b.denom + b.num * a.denom, denom |-> a.denom * b.denom]
\* dim is the per-dimension sum of dim1 and dim2 without its zero exponents
IsDimSum(dim, dim1, dim2) ==
    /\ DOMAIN dim = {d \in DOMAIN dim1 \cup DOMAIN dim2 : ExponentSum(dim1, dim2, d).num # 0}
    /\ \A d \in DOMAIN dim : RatEqual(dim[d], ExponentSum(dim1, dim2, d))

\* C20: cross(a, b) and dot(a, b) of two quantities return a quantity whose
\* scale is a.scale + b.scale and whose dimension mapping is the sum per base
\* dimension with the zero exponents removed; dot of a quantity and a bare
\* array, in either order, returns the unit of the quantity.
C20_CrossDotUnits ==
    AtCall({"cross", "dot"}) =>
        LET a == ucall.arg.items[1]
            b == ucall.arg.items[2]
        IN  /\ (a.k = "Unitful" /\ b.k = "Unitful") =>
                    /\ uout.k = "Unitful"
                    /\ uout.unit.scale = a.unit.scale + b.unit.scale
                    /\ IsDimSum(uout.unit.dim, a.unit.dim, b.unit.dim)
            /\ (ucall.op = "dot" /\ a.k = "Unitful" /\ BareArray(b)) =>
                    uout.k = "Unitful" /\ uout.unit = a.unit
            /\ (ucall.op = "dot" /\ BareArray(a) /\ b.k = "Unitful") =>
                    uout.k = "Unitful" /\ uout.unit = b.unit

\* cross of a quantity in m at scale -3 and one in m^-1 at scale -6 is
\* dimensionless at scale -9
C20_Witness ==
    /\ AtCall({"cross"})
    /\ AllUnitful(ucall.arg.items)
    /\ ucall.arg.items[1].unit = Unit(-ScaleStep, [d \in {"m"} |-> IntV(1)])
    /\ ucall.arg.items[2].unit = Unit(-2 * ScaleStep, [d \in {"m"} |-> IntV(-1)])
    /\ uout.k = "Unitful"
    /\ uout.unit = Unit(-3 * ScaleStep, <<>>)


\* What the call op(*items) returns or raises under the choices target,
\* physical and miss.
Outcome(op, items, target, physical, miss) ==
    CASE op = "sqrt" -> sqrt(items[1], miss)
      [] op = "roll" -> roll(items[1], miss)
      [] op = "square" -> square(items[1], miss)
      [] op = "cross" -> cross(items[1], items[2])
      [] op = "conj" -> conj(items[1], miss)
      [] op = "dot" -> dot(items[1], items[2], miss)
      [] op = "transpose" -> transpose(items[1], miss)
      [] op = "pad" -> pad(items[1], miss)
      [] op = "stack" -> stack(List(items), target, physical, miss)
      [] op = "stack_one" -> stack(items[1], 0, physical, miss)
      [] op = "isfinite" -> isfinite(items[1], miss)
      [] op = "real" -> real(items[1], miss)
      [] op = "imag" -> imag(items[1], miss)
      [] op = "sin" -> sin(items[1], miss)
      [] op = "cos" -> cos(items[1], miss)
      [] op = "tan" -> tan(items[1], miss)
      [] op = "exp" -> exp(items[1], miss)
      [] op = "expand_dims" -> expand_dims(items[1], miss)
      [] op = "where" -> where(items[1], items[2], items[3], target, miss)
      [] op = "meshgrid" -> meshgrid(List(items), target, miss)
      [] op = "floor" -> floor(items[1], miss)
      [] op = "ceil" -> ceil(items[1], miss)
\* the target scales open to the call op(*items)
Targets(op, items) ==
    IF op = "where" THEN TargetScales(ScalesOf(<<items[2], items[3]>>))
    ELSE IF op \in {"stack", "meshgrid"} THEN TargetScales(ScalesOf(items))
    ELSE {0}

\* the operands with every quantity's shadow removed
WithoutShadows(items) ==
    [i \in DOMAIN items |->
        IF items[i].k = "Unitful" THEN [items[i] EXCEPT !.static_arr = NoStaticArr]
        ELSE items[i]]
\* the operands with every quantity given a shadow of another value
WithOtherShadows(items) ==
    [i \in DOMAIN items |->
        IF items[i].k = "Unitful"
        THEN [items[i] EXCEPT !.static_arr = Number(items[i].val.v + 5, 0, 0, FALSE)]
        ELSE items[i]]
\* the same result but for the shadow
SameButShadow(r1, r2) ==
    /\ r1.k = r2.k
    /\ r1.k = "Unitful" => (r1.val = r2.val /\ r1.unit = r2.unit)
    /\ r1.k = "list" =>
            /\ DOMAIN r1.items = DOMAIN r2.items
            /\ \A i \in DOMAIN r1.items :
                    /\ r1.items[i].val = r2.items[i].val
                    /\ r1.items[i].unit = r2.items[i].unit
    /\ r1.k \notin {"Unitful", "list"} => r1 = r2

\* C21: the shadow never influences a result: for every overlaid function,
\* the call with the same operands carrying no shadows, or shadows of other
\* values, has the same result payload and unit (or raises the same error);
\* only the result's shadow may differ.
C21_ShadowNoInfluence ==
    AtCall(OverlaidOps) =>
        \A others \in {WithoutShadows(ucall.arg.items), WithOtherShadows(ucall.arg.items)} :
            \E target \in Targets(ucall.op, ucall.arg.items),
               physical \in BOOLEAN, miss \in FallbackErrors :
                SameButShadow(Outcome(ucall.op, others, target, physical, miss), uout)

\* stack of three traced quantities with shadows has returned a quantity
\* with a shadow
C21_Witness ==
    /\ AtCall({"stack"})
    /\ Len(ucall.arg.items) = 3
    /\ AllUnitful(ucall.arg.items)
    /\ \A i \in 1..3 : ucall.arg.items[i].static_arr # NoStaticArr
    /\ ucall.arg.items[1].unit.scale # ucall.arg.items[2].unit.scale
    /\ uout.k = "Unitful"
    /\ uout.static_arr # NoStaticArr


\* The value of a payload, whether traced or concrete: of a number, of the
\* host's function at one number, of the host's function at several.
NumberValue(val) == [Canon(val) EXCEPT !.traced = FALSE]
AppliedValue(val) == [val EXCEPT !.of = NumberValue(@), !.traced = FALSE]
AppliedNValue(val) ==
    [val EXCEPT !.of = [i \in DOMAIN @ |-> NumberValue(@[i])], !.traced = FALSE]
PayloadValue(op, val) ==
    CASE op = "sqrt" -> NumberValue(val)
      [] op \in {"roll", "pad", "exp", "floor", "ceil", "stack_one"} -> AppliedValue(val)
      [] op \in {"cross", "dot", "stack", "where", "meshgrid"} -> AppliedNValue(val)
\* every shadow among the operands is the value of its payload
ShadowsMirror(items) ==
    \A i \in DOMAIN items :
        (items[i].k = "Unitful" /\ items[i].static_arr # NoStaticArr) =>
            items[i].static_arr = NumberValue(items[i].val)
\* the shadow of the quantity r, when present, is the value of its payload
ShadowConsistent(op, r) ==
    r.static_arr # NoStaticArr => r.static_arr = PayloadValue(op, r.val)

\* C22: whenever sqrt, roll, cross, dot, pad, stack, where, exp, floor, ceil
\* or meshgrid returns a quantity with a shadow, and every operand's shadow
\* equalled its payload, the result's shadow equals the value of the
\* result's payload, also when the operands have different scales.
C22_ShadowConsistent ==
    (/\ AtCall({"sqrt", "roll", "cross", "dot", "pad", "stack", "stack_one",
                "where", "exp", "floor", "ceil", "meshgrid"})
     /\ ShadowsMirror(ucall.arg.items)) =>
        /\ uout.k = "Unitful" => ShadowConsistent(ucall.op, uout)
        /\ uout.k = "list" =>
                \A i \in DOMAIN uout.items : ShadowConsistent(ucall.op, uout.items[i])


AtCurl(ops) == focus = "curl" /\ ucall.op \in ops
AllPeriodic(axes) == axes = <<TRUE, TRUE, TRUE>>
NonePeriodic(axes) == axes = <<FALSE, FALSE, FALSE>>
EverywhereZero(field) ==
    \A c \in DOMAIN field : \A idx \in DOMAIN field[c].at : field[c].at[idx] = Frac(0, 1)

\* C23: for a spatially constant field with all three axes periodic, curl_E
\* and curl_H are zero at every cell and in every component.
C23_UniformCurlZero ==
    (/\ AtCurl({"curl_E", "curl_H"})
     /\ ucall.arg.kind.kind = "uniform"
     /\ AllPeriodic(ucall.arg.periodic_axes)) => EverywhereZero(uout)
C23_Witness ==
    /\ AtCurl({"curl_H"})
    /\ ucall.arg.kind = [kind |-> "uniform", c |-> <<1, -2, 3>>]
    /\ AllPeriodic(ucall.arg.periodic_axes)
    /\ ucall.arg.shape = <<MaxGrid, MaxGrid, MaxGrid>>
    /\ ucall.arg.resolution = MaxRes
    /\ EverywhereZero(uout)

\* the cells with x < nx - 1 and y < ny - 1, and the interior cells
AwayFromUpperXY(shape) == {idx \in Indices(shape) : idx[1] < shape[1] - 1 /\ idx[2] < shape[2] - 1}
Interior(shape) ==
    {idx \in Indices(shape) : \A i \in 1..3 : idx[i] >= 1 /\ idx[i] <= shape[i] - 2}

\* C24: at resolution 1, the z-component of curl_E of E = (y, -x, 0) under
\* periodic axes is -2 at every cell with x < nx - 1 and y < ny - 1, and the
\* y-component of curl_H of H = (z, 0, -x) under non-periodic axes is 2 at
\* every interior cell.
C24_LinearCurl ==
    /\ (/\ AtCurl({"curl_E"})
        /\ ucall.arg.kind.kind = "linear_E"
        /\ ucall.arg.resolution = 1
        /\ AllPeriodic(ucall.arg.periodic_axes)) =>
            \A idx \in AwayFromUpperXY(ucall.arg.shape) : uout[3].at[idx] = Frac(-2, 1)
    /\ (/\ AtCurl({"curl_H"})
        /\ ucall.arg.kind.kind = "linear_H"
        /\ ucall.arg.resolution = 1
        /\ NonePeriodic(ucall.arg.periodic_axes)) =>
            \A idx \in Interior(ucall.arg.shape) : uout[2].at[idx] = Frac(2, 1)
C24_Witness ==
    /\ AtCurl({"curl_H"})
    /\ ucall.arg.kind.kind = "linear_H"
    /\ ucall.arg.resolution = 1
    /\ NonePeriodic(ucall.arg.periodic_axes)
    /\ Interior(ucall.arg.shape) # {}
    /\ \A idx \in Interior(ucall.arg.shape) : uout[2].at[idx] = Frac(2, 1)

HasShape(field, shape) ==
    /\ FieldShape(field) = shape
    /\ \A c \in DOMAIN field : DOMAIN field[c].at = Indices(field[c].shape)

Overlapped(log) ==
    \E i \in DOMAIN log : \E j \in DOMAIN log :
        /\ i < j
        /\ log[i][2] = "enter" /\ log[j][2] = "enter"
        /\ ~\E k \in DOMAIN log : i < k /\ k < j /\ log[k] = <<log[i][1], "return">>
\* the saved original of a name the host defined is a unit-aware replacement
OriginalIsReplacement(mod, fn_name) ==
    /\ HasAttr(host[mod], AttrName(fn_name))
    /\ ns[mod][OriginalName(fn_name)].kind = "unitful"

\* C26: when patch_fn_to_module races against itself, some interleaving of
\* the check, the saving of the original and the replacement leaves
\* _orig_<name> bound to a unit-aware replacement; calls made one after the
\* other never do so for a name the host defined.
C26_OnlyARaceLosesTheOriginal ==
    focus = "race" =>
        \A mod \in Modules : \A fn_name \in PatchedNames(mod) :
            OriginalIsReplacement(mod, fn_name) => Overlapped(hist)
C26_Witness ==
    /\ focus = "race"
    /\ \A t \in Threads : q[t].pc = "done"
    /\ OriginalIsReplacement(JNP, "roll")
    /\ Overlapped(hist)
\* two calls for the same host-defined name, one after the other
C26_WitnessSequential ==
    /\ focus = "race"
    /\ \A t \in Threads : q[t].pc = "done" /\ q[t].mod = JNP /\ q[t].fn_name = "roll"
    /\ ~Overlapped(hist)
    /\ ns[JNP][OriginalName("roll")] = HostFn(JNP, "roll")


\* the number of decimal digits of a positive integer
RECURSIVE Digits(_)
Digits(n) == IF n < 10 THEN 1 ELSE 1 + Digits(n \div 10)
\* 0 < val < 1 for a number val = v^(1/2^r) * 10^(t/2^r) with v >= 1:
\* val^(2^r) = v * 10^t < 1
BelowOne(val) == val.t < 0 /\ Digits(val.v) <= -val.t
\* the integer floor(val) or ceil(val) is zero; the payloads are positive,
\* so ceil is at least one
AppliedIsZero(a) == a.fn = "floor" /\ BelowOne(a.of)
\* the physical value of the quantity r, val * 10^scale, is the integer a
\* (the host's floor or ceil at some number)
PhysicalValueIs(r, a) ==
    /\ r.val.fn = a.fn /\ r.val.of = a.of
    /\ r.unit.scale = 0 \/ AppliedIsZero(a)

\* C27: floor and ceil of a dimensionless quantity with payload v and scale s
\* return a quantity whose physical value (payload times ten to the scale of
\* its unit) is floor(v * 10^s), respectively ceil(v * 10^s): the scale is
\* not applied twice.
C27_FloorCeilPhysicalValue ==
    (AtOp({"floor", "ceil"}) /\ Dimensionless(ucall.arg)) =>
        /\ uout.k = "Unitful"
        /\ PhysicalValueIs(uout, Applied(ucall.op, Materialise(ucall.arg)))


\* the physical values where(c, x, y) selects from, as the host's where at
\* the condition and the two branches taken at scale 0
WherePhysical(c_val, x_val, x_scale, y_val, y_scale) ==
    AppliedNValue(AppliedN("where", <<c_val, ScaleBy(x_val, x_scale), ScaleBy(y_val, y_scale)>>))
ValidCondition(c) == DOMAIN c.unit.dim = {} /\ c.unit.scale = 0

\* C28: where(c, x, y) of quantities returns a quantity whose physical value
\* is that of x where c is true and that of y where c is false, for every
\* pair of scales of x and y; it raises when the dimension mappings of x and
\* y differ or when c is not dimensionless at scale 0.
C28_WherePhysicalValue ==
    (AtCall({"where"}) /\ AllUnitful(ucall.arg.items)) =>
        LET c == ucall.arg.items[1]
            xq == ucall.arg.items[2]
            yq == ucall.arg.items[3]
        IN  IF ~DimEq(xq.unit.dim, yq.unit.dim) \/ ~ValidCondition(c)
            THEN Raised(uout)
            ELSE /\ uout.k = "Unitful"
                 /\ DimEq(uout.unit.dim, xq.unit.dim)
                 /\ WherePhysical(uout.val.of[1], uout.val.of[2], uout.unit.scale,
                                  uout.val.of[3], uout.unit.scale)
                        = WherePhysical(c.val, xq.val, xq.unit.scale, yq.val, yq.unit.scale)


\* the expression start op1 name1 op2 name2 ... has been evaluated
AtExpr(start, expr) == focus = "units" /\ q = start /\ ucall = expr
UnitEq(a, b) == a.scale = b.scale /\ DimEq(a.dim, b.dim)
\* the prefixed variants of each unit
Families ==
    {{"s_unit", "ms_unit", "us_unit", "ns_unit", "ps_unit", "fs_unit"},
     {"Hz_unit", "kHz_unit", "MHz_unit", "GHz_unit", "THz_unit", "PHz_unit"},
     {"km_unit", "m_unit", "mm_unit", "um_unit", "nm_unit", "pm_unit"},
     {"MW_unit", "kW_unit", "W_unit", "mW_unit", "uW_unit"},
     {"kV_unit", "V_unit", "mV_unit", "uV_unit"},
     {"kA_unit", "A_unit", "mA_unit", "uA_unit"},
     {"F_unit", "mF_unit", "uF_unit", "nF_unit", "pF_unit", "fF_unit"}}
\* W = J/s, J = N*m, V = W/A, V/m, A/m and m/s have the declared units
ComposedAsDeclared ==
    /\ AtExpr("J_unit", << <<"/", "s_unit">> >>) => UnitEq(uout, Units.W_unit)
    /\ AtExpr("N_unit", << <<"*", "m_unit">> >>) => UnitEq(uout, Units.J_unit)
    /\ AtExpr("W_unit", << <<"/", "A_unit">> >>) => UnitEq(uout, Units.V_unit)
    /\ AtExpr("V_unit", << <<"/", "m_unit">> >>) => UnitEq(uout, Units.V_per_m_unit)
    /\ AtExpr("A_unit", << <<"/", "m_unit">> >>) => UnitEq(uout, Units.A_per_m_unit)
    /\ AtExpr("m_unit", << <<"/", "s_unit">> >>) => UnitEq(uout, Units.m_per_s_unit)
\* the prefixed variants of the unit at hand have its dimension mapping and
\* another scale
VariantsDifferInScale ==
    (focus = "units" /\ ucall = <<>>) =>
        \A family \in Families : \A other \in family :
            (q \in family /\ other # q) =>
                /\ DimEq(Units[other].dim, uout.dim)
                /\ Units[other].scale # uout.scale

\* C29: every declared derived unit has the dimension and scale obtained by
\* composing the declared base units: W = J/s, J = N*m, V = W/A,
\* F = A*s/V, and V_per_m_unit, A_per_m_unit, m_per_s_unit are the units of
\* V/m, A/m, m/s; the prefixed variants of one unit share one dimension
\* mapping and differ only in scale.
C29_DerivedUnits ==
    /\ ComposedAsDeclared
    /\ AtExpr("A_unit", << <<"*", "s_unit">>, <<"/", "V_unit">> >>) => UnitEq(uout, Units.F_unit)
    /\ VariantsDifferInScale


\* the call was made on one plain Python number (an int or a float)
OfPlainNumber == Len(ucall.arg.items) = 1 /\ ucall.arg.items[1].k = "float"
\* the plain number r is zero
IsZero(r) == r.k = "float" /\ r.val.v = 0
\* re + i*im is the plain number xv, and re - i*im is its conjugate cj: the
\* real parts agree and the imaginary parts, zero for a plain number, do too
Recombines(re, im, xv) == re = xv /\ IsZero(im)
IsConjugate(cj, re, im) == cj = re /\ IsZero(im)

\* C30: for a plain int or float v, real(v) is v and imag(v) is 0, so that
\* real(x) + i*imag(x) = x and conj(x) = real(x) - i*imag(x) hold for the
\* plain numbers as they do for complex numbers and arrays.
C30_RealImagOfPlainNumber ==
    /\ (AtCall({"real"}) /\ OfPlainNumber) => uout = ucall.arg.items[1]
    /\ (AtCall({"imag"}) /\ OfPlainNumber) => IsZero(uout)
    /\ (AtCall({"real", "imag", "conj"}) /\ OfPlainNumber) =>
            \A miss \in FallbackErrors :
                LET xv == ucall.arg.items[1]
                IN  /\ Recombines(real(xv, miss), imag(xv, miss), xv)
                    /\ IsConjugate(conj(xv, miss), real(xv, miss), imag(xv, miss))

=============================================================================
